---- MODULE Spec2Model ----
(***************************************************************************)
(* Request/response correlation engine of the HTTP tunnel service:         *)
(* Edge Handler (lambdas/http-proxy), Agent (cli proxy), Dispatcher        *)
(* (lambdas/tunnel-proxy), connection hooks (tunnel-connect,               *)
(* tunnel-disconnect), upload-notify (s3-upload-notify), over the          *)
(* pending-requests table, the tunnels table and the uploads bucket.       *)
(*                                                                         *)
(* Byte strings are modelled by the offsets they cover in the body they    *)
(* were cut from: a value is a sequence of segments <<kind, id, lo, hi>>,  *)
(* kept normalised (adjacent segments merged), so that slicing and         *)
(* concatenation are computed as the code computes them and two values     *)
(* are equal exactly when they hold the same bytes in the same order.      *)
(* Optional attributes of a table item are <<>> (absent) or <<v>>.         *)
(* Time is counted in minutes.                                             *)
(***************************************************************************)
EXTENDS Integers, Sequences, FiniteSets, Bags, TLC

VARIABLES now, tunnels, domains, conns, store, objects, wsQueue, inflight,
          edge, pushed, chunkBuffers, workers, local, uploads, polls, urlResp,
          writeMux, senders, agent, calls

vars == <<now, tunnels, domains, conns, store, objects, wsQueue, inflight,
          edge, pushed, chunkBuffers, workers, local, uploads, polls, urlResp,
          writeMux, senders, agent, calls>>

(* inflight is the bag of the messages written to a connection and not yet
   handled by the dispatcher: conn.WriteMessage of two equal messages gives
   two invocations of the dispatcher *)
InFlight == BagToSet(inflight)
(* the messages the dispatcher takes in this step, the messages that get
   onto a connection in this step *)
Dispatched == {f \in InFlight : CopiesIn(f, inflight') < CopiesIn(f, inflight)}
Arrived == {f \in BagToSet(inflight') : CopiesIn(f, inflight') > CopiesIn(f, inflight)}

----------------------------------------------------------------------------
(* Bounds of the model *)

MaxTime == 35
MaxConn == 2
MaxReq == 2
MaxEdge == 2
MaxPut == 2
(* registry polls of one grace window before its deadline *)
GracePolls == 2
(* ticks of the heartbeat's 30 s ticker in the life of one agent process *)
MaxPing == 1

(* Program constants *)

wsChunkSize == 92160
chunkSize == 92160
s3UploadThreshold == 262144
wsMessageLimit == 131072
chunkBudget == 122880
PendingTTL == 5
UploadTTL == 30
RecentMinutes == 5

(* the clock advances by the shortest ttl *)
TickStep == PendingTTL

TunnelIds == {"t1", "t2"}
ClientIds == {"cl1", "cl2"}
ConnIds == 1..MaxConn
ReqIds == 1..MaxReq
EdgeIds == 1..MaxEdge

(* the goroutines the agent runs for the frames it reads: every proxy frame
   the edge handler and upload-notify can push gets one *)
MaxWorkers == MaxReq * MaxPut
WorkerIds == 1..MaxWorkers

(* the agent's tasks that write to the connection: 0 is the keepAlive
   goroutine, k the goroutine in slot k of workers *)
Tasks == {0} \cup WorkerIds
(* a task that is not sending: out holds the frames it has still to send *)
Idle == [pc |-> "idle", out |-> <<>>, conn |-> 0]

(* the agent process: the connection Start dialled (0: none), which of its
   two goroutines are running, and the ticks its heartbeat has had *)
NoAgent == [conn |-> 0, reader |-> FALSE, heartbeat |-> FALSE, pings |-> 0]
(* Start: connectWebSocket, go handleWebSocketMessages, go keepAlive *)
Started(c) == [conn |-> c, reader |-> TRUE, heartbeat |-> TRUE, pings |-> 0]

(* Lambda invocations that are between two of their DynamoDB, S3 or API
   Gateway calls: create-tunnel and delete-tunnel by tunnel id, the upload-url
   endpoint by request id, upload-notify by request id and ObjectCreated
   event of the request *)
NoCall == [pc |-> "idle", client |-> "", sub |-> "", tunnel |-> "", conn |-> 0,
           presign |-> FALSE, item |-> <<>>]
NoCalls ==
    [create |-> [t \in {"t1", "t2"} |-> NoCall],
     delete |-> [t \in {"t1", "t2"} |-> NoCall],
     url |-> [r \in 1..MaxReq |-> NoCall],
     notify |-> [r \in 1..MaxReq |-> [k \in 1..MaxPut |-> NoCall]]]

(* the edge invocation of the behaviours with one caller *)
OneEdge == {CHOOSE e \in EdgeIds : \A d \in EdgeIds : e <= d}
(* the request id the first request of a behaviour gets *)
FirstReq == CHOOSE r \in ReqIds : \A q \in ReqIds : r <= q

TunnelStatusActive == "active"
TunnelStatusInactive == "inactive"

----------------------------------------------------------------------------
(* Optional values *)

None == <<>>
Some(v) == <<v>>
Has(x) == x # <<>>
Val(x) == x[1]

----------------------------------------------------------------------------
(* Byte strings *)

Empty == <<>>

Whole(kind, id, n) == IF n = 0 THEN <<>> ELSE << <<kind, id, 0, n>> >>

(* n line feeds *)
NewLines(n) == << <<"newline", 0, 0, n>> >>

RECURSIVE ByteLen(_)
ByteLen(b) == IF b = <<>> THEN 0 ELSE (b[1][4] - b[1][3]) + ByteLen(Tail(b))

Concat(a, b) ==
    IF a = <<>> THEN b
    ELSE IF b = <<>> THEN a
    ELSE LET x == a[Len(a)]
             y == b[1]
         IN IF x[1] = "ufffd" /\ y[1] = "ufffd"
            THEN SubSeq(a, 1, Len(a) - 1)
                   \o << <<"ufffd", x[2] + y[2], 0, x[4] + y[4]>> >> \o Tail(b)
            ELSE IF x[1] = y[1] /\ x[2] = y[2] /\ x[4] = y[3]
            THEN SubSeq(a, 1, Len(a) - 1)
                   \o << <<x[1], x[2], x[3], y[4]>> >> \o Tail(b)
            ELSE a \o b

(* Go's b[start:end] *)
RECURSIVE Slice(_, _, _)
Slice(b, start, end) ==
    IF b = <<>> \/ end <= start THEN <<>>
    ELSE LET s == b[1]
             n == s[4] - s[3]
         IN IF start >= n THEN Slice(Tail(b), start - n, end - n)
            ELSE LET e == IF end < n THEN end ELSE n
                 IN Concat(<< <<s[1], s[2], s[3] + start, s[3] + e>> >>,
                           Slice(Tail(b), 0, end - n))

(* What the bytes of a body are, by the kind of its segments:
     "req.bin", "resp.bin"    bytes none of which is valid UTF-8 (FF D8 FF ..)
     "req.utf8", "resp.utf8"  ASCII but for one two-byte character (C3 A9) at
                              the offsets SplitAt - 1 and SplitAt
     "resp.lf"                ASCII with a line feed as the last byte of every
                              LineLen bytes
     "ufffd"                  U+FFFD characters (EF BF BD), as many as the id
     any other kind           ASCII that JSON writes as it is *)
BinKinds == {"req.bin", "resp.bin"}
Utf8Kinds == {"req.utf8", "resp.utf8"}
LfKinds == {"resp.lf"}
SplitAt == wsChunkSize
LineLen == 130

(* n U+FFFD characters *)
Replaced(n) == IF n = 0 THEN <<>> ELSE << <<"ufffd", n, 0, 3 * n>> >>

(* a piece that ends with the first byte of the two-byte character, a piece
   that starts with its second byte *)
LoneLead(s) == s[1] \in Utf8Kinds /\ s[4] = SplitAt /\ s[3] < SplitAt
LoneCont(s) == s[1] \in Utf8Kinds /\ s[3] = SplitAt /\ s[4] > SplitAt

Piece(s, lo, hi) == IF lo < hi THEN << <<s[1], s[2], lo, hi>> >> ELSE <<>>

(* json.Marshal of a Go string, as the receiver decodes it: the string is
   coerced to valid UTF-8, every byte that is not part of a valid encoding is
   replaced by U+FFFD *)
RECURSIVE ToValidUTF8(_)
ToValidUTF8(b) ==
    IF b = <<>> THEN <<>>
    ELSE LET s == b[1]
             t == IF s[1] \in BinKinds THEN Replaced(s[4] - s[3])
                  ELSE IF LoneLead(s) THEN Concat(Piece(s, s[3], s[4] - 1), Replaced(1))
                  ELSE IF LoneCont(s) THEN Concat(Replaced(1), Piece(s, s[3] + 1, s[4]))
                  ELSE << s >>
         IN Concat(t, ToValidUTF8(Tail(b)))

(* the bytes json.Marshal writes for the contents of a Go string: a replaced
   byte is written as the six characters \ufffd, a line feed as the two
   characters \n *)
RECURSIVE JSONLen(_)
JSONLen(b) ==
    IF b = <<>> THEN 0
    ELSE LET s == b[1]
             n == s[4] - s[3]
         IN (IF s[1] \in BinKinds THEN 6 * n
             ELSE IF LoneLead(s) \/ LoneCont(s) THEN n + 5
             ELSE IF s[1] \in LfKinds THEN n + (s[4] \div LineLen) - (s[3] \div LineLen)
             ELSE n)
            + JSONLen(Tail(b))

----------------------------------------------------------------------------
(* Tunnels table and domains table (Agent Connection Registry) *)

Subdomains == {"myapp", "other"}

EmptyTunnel ==
    [client_id |-> None, subdomain |-> None, status |-> None,
     connection_id |-> None, updated_at |-> None]

(* models.Tunnel as PutItem marshals it: ConnectionID is omitempty *)
NewTunnel(cl, sub, t0) ==
    [client_id |-> Some(cl), subdomain |-> Some(sub),
     status |-> Some(TunnelStatusInactive),
     connection_id |-> None, updated_at |-> Some(t0)]

(* GetItem + UnmarshalMap into models.Tunnel: absent attributes read as "" *)
TunnelStatus(it) == IF Has(it.status) THEN Val(it.status) ELSE ""
TunnelClient(it) == IF Has(it.client_id) THEN Val(it.client_id) ELSE ""
TunnelHasConn(it) == Has(it.connection_id)

(* DynamoDB UpdateItem without a condition: creates the item when absent *)
UpsertBase(tbl, k, empty) == IF Has(tbl[k]) THEN Val(tbl[k]) ELSE empty

BindKeepOld(tbl, t, c, t0) ==
    [tbl EXCEPT ![t] = Some([UpsertBase(tbl, t, EmptyTunnel) EXCEPT
                               !.connection_id = IF Has(@) THEN @ ELSE Some(c),
                               !.status = Some(TunnelStatusActive),
                               !.updated_at = Some(t0)])]

(* tunnel-connect: SET connection_id, status = active, updated_at *)
Bind(tbl, t, c, t0) ==
    [tbl EXCEPT ![t] = Some([UpsertBase(tbl, t, EmptyTunnel) EXCEPT
                               !.connection_id = Some(c),
                               !.status = Some(TunnelStatusActive),
                               !.updated_at = Some(t0)])]

UnbindKeepConn(tbl, t, t0) ==
    [tbl EXCEPT ![t] = Some([UpsertBase(tbl, t, EmptyTunnel) EXCEPT
                               !.status = Some(TunnelStatusInactive),
                               !.updated_at = Some(t0)])]

(* tunnel-disconnect: SET status = inactive, updated_at REMOVE connection_id *)
Unbind(tbl, t, t0) ==
    [tbl EXCEPT ![t] = Some([UpsertBase(tbl, t, EmptyTunnel) EXCEPT
                               !.status = Some(TunnelStatusInactive),
                               !.connection_id = None,
                               !.updated_at = Some(t0)])]

(* Scan with FilterExpression connection_id = :connection_id *)
findTunnelByConnectionID(tbl, c) ==
    {t \in TunnelIds : Has(tbl[t]) /\ Val(tbl[t]).connection_id = Some(c)}

NewConn == [st |-> "new", tunnel |-> "", client |-> "", found |-> ""]

FreshConn(c) == conns[c].st = "new" /\ \A d \in ConnIds : d < c => conns[d].st # "new"

Live(c) == c \in ConnIds /\ conns[c].st = "open"

RegistryUnchanged == UNCHANGED <<calls, writeMux, senders, agent, store, objects, wsQueue, inflight, edge, pushed,
                                 chunkBuffers, workers, local, uploads, polls, urlResp>>

AdminUnchanged == UNCHANGED <<now, conns, writeMux, senders, agent, store, objects, wsQueue,
                              inflight, edge, pushed, chunkBuffers, workers, local,
                              uploads, polls, urlResp>>

(* create-tunnel handler up to isSubdomainAvailable: GetItem of the domain;
   409 when it is taken; t is the id GenerateTunnelID draws *)
handler_create_tunnel_check(t, cl, sub) ==
    /\ ~Has(tunnels[t])
    /\ calls.create[t].pc = "idle"
    /\ ~Has(domains[sub])
    /\ calls' = [calls EXCEPT !.create[t] =
                    [NoCall EXCEPT !.pc = "put_tunnel", !.client = cl, !.sub = sub]]
    /\ UNCHANGED <<tunnels, domains>>
    /\ AdminUnchanged

(* create-tunnel handler: PutItem of the tunnel record (inactive), 500 when
   it fails *)
handler_create_tunnel_tunnel(t, ok) ==
    /\ calls.create[t].pc = "put_tunnel"
    /\ tunnels' = IF ok
                  THEN [tunnels EXCEPT ![t] =
                          Some(NewTunnel(calls.create[t].client, calls.create[t].sub, now))]
                  ELSE tunnels
    /\ calls' = [calls EXCEPT !.create[t] =
                    IF ok THEN [@ EXCEPT !.pc = "put_domain"] ELSE NoCall]
    /\ UNCHANGED domains
    /\ AdminUnchanged

(* create-tunnel handler: PutItem of the domain record; when it fails the
   handler goes on to the rollback *)
handler_create_tunnel_domain(t, ok) ==
    /\ calls.create[t].pc = "put_domain"
    /\ domains' = IF ok THEN [domains EXCEPT ![calls.create[t].sub] = Some(t)] ELSE domains
    /\ calls' = [calls EXCEPT !.create[t] =
                    IF ok THEN NoCall ELSE [@ EXCEPT !.pc = "rollback"]]
    /\ UNCHANGED tunnels
    /\ AdminUnchanged

(* create-tunnel handler: _ = deleteTunnel(ctx, tunnelID), then 500 *)
handler_create_tunnel_rollback(t, ok) ==
    /\ calls.create[t].pc = "rollback"
    /\ tunnels' = IF ok THEN [tunnels EXCEPT ![t] = None] ELSE tunnels
    /\ calls' = [calls EXCEPT !.create[t] = NoCall]
    /\ UNCHANGED domains
    /\ AdminUnchanged

(* delete-tunnel handler: GetItem of the tunnel and the owner test *)
handler_delete_tunnel_get(t, cl) ==
    /\ calls.delete[t].pc = "idle"
    /\ Has(tunnels[t])
    /\ TunnelClient(Val(tunnels[t])) = cl
    /\ calls' = [calls EXCEPT !.delete[t] =
                    [NoCall EXCEPT !.pc = "del_domain",
                                   !.sub = IF Has(Val(tunnels[t]).subdomain)
                                           THEN Val(Val(tunnels[t]).subdomain) ELSE ""]]
    /\ UNCHANGED <<tunnels, domains>>
    /\ AdminUnchanged

(* delete-tunnel handler: DeleteItem of the domain the tunnel record named,
   500 when it fails *)
handler_delete_tunnel_domain(t, ok) ==
    /\ calls.delete[t].pc = "del_domain"
    /\ domains' = IF ok
                  THEN [s \in Subdomains |->
                          IF s = calls.delete[t].sub THEN None ELSE domains[s]]
                  ELSE domains
    /\ calls' = [calls EXCEPT !.delete[t] =
                    IF ok THEN [@ EXCEPT !.pc = "del_tunnel"] ELSE NoCall]
    /\ UNCHANGED tunnels
    /\ AdminUnchanged

(* delete-tunnel handler: DeleteItem of the tunnel, 500 when it fails *)
handler_delete_tunnel_tunnel(t, ok) ==
    /\ calls.delete[t].pc = "del_tunnel"
    /\ tunnels' = IF ok THEN [tunnels EXCEPT ![t] = None] ELSE tunnels
    /\ calls' = [calls EXCEPT !.delete[t] = NoCall]
    /\ UNCHANGED domains
    /\ AdminUnchanged

(* tunnel-connect handler, up to the GetItem and ownership checks.
   cl is the clientId of the authorizer context, "" when there is none;
   t is the tunnel_id query parameter, "" when missing. *)
handler_tunnel_connect_get(c, t, cl) ==
    /\ FreshConn(c)
    /\ conns' = [conns EXCEPT ![c] =
         [st |-> IF cl = "" THEN "rejected401"
                 ELSE IF t = "" THEN "rejected400"
                 ELSE IF ~Has(tunnels[t]) THEN "rejected404"
                 ELSE IF TunnelClient(Val(tunnels[t])) # cl THEN "rejected403"
                 ELSE "auth",
          tunnel |-> t, client |-> cl, found |-> ""]]
    /\ UNCHANGED <<calls, writeMux, senders, agent, now, tunnels, domains>>
    /\ RegistryUnchanged

(* tunnel-connect handler, the UpdateItem *)
handler_tunnel_connect_update(c) ==
    /\ conns[c].st = "auth"
    /\ tunnels' = Bind(tunnels, conns[c].tunnel, c, now)
    /\ conns' = [conns EXCEPT ![c].st = "open"]
    /\ UNCHANGED <<calls, writeMux, senders, agent, now, domains>>
    /\ RegistryUnchanged

(* the channel closes; API Gateway fires $disconnect *)
WsDisconnect(c) ==
    /\ conns[c].st = "open"
    /\ conns' = [conns EXCEPT ![c].st = "closing"]
    /\ wsQueue' = [wsQueue EXCEPT ![c] = <<>>]
    /\ UNCHANGED <<calls, writeMux, senders, agent, now, tunnels, domains, store, objects, inflight, edge, pushed,
                   chunkBuffers, workers, local, uploads, polls, urlResp>>

(* tunnel-disconnect handler, the scan *)
handler_tunnel_disconnect_scan(c) ==
    /\ conns[c].st = "closing"
    /\ LET m == findTunnelByConnectionID(tunnels, c)
       IN IF m = {} THEN conns' = [conns EXCEPT ![c].st = "closed"]
          ELSE \E t \in m : conns' = [conns EXCEPT ![c].st = "unbinding", ![c].found = t]
    /\ UNCHANGED <<calls, writeMux, senders, agent, now, tunnels, domains>>
    /\ RegistryUnchanged

(* tunnel-disconnect handler, the UpdateItem *)
handler_tunnel_disconnect_update(c) ==
    /\ conns[c].st = "unbinding"
    /\ tunnels' = Unbind(tunnels, conns[c].found, now)
    /\ conns' = [conns EXCEPT ![c].st = "closed"]
    /\ UNCHANGED <<calls, writeMux, senders, agent, now, domains>>
    /\ RegistryUnchanged

----------------------------------------------------------------------------
(* Pending-requests table *)

EmptyItem ==
    [tunnel_id |-> None, body |-> None, status |-> None,
     response_status |-> None, response_headers |-> None, response_body |-> None,
     created_at |-> None, ttl |-> None,
     s3_request_key |-> None, s3_response_key |-> None, s3_response_put_url |-> None,
     s3_response_ready |-> None, total_chunks |-> None,
     is_streaming |-> None, stream_status |-> None, stream_headers |-> None,
     stream_done |-> None, stream_chunk |-> <<>>]

(* the PendingRequest struct as MarshalMap writes it: the omitempty response
   fields are left out *)
PendingRequest(t, body, status, t0, ttl) ==
    [EmptyItem EXCEPT !.tunnel_id = Some(t), !.body = Some(body),
                      !.status = Some(status),
                      !.created_at = Some(t0), !.ttl = Some(ttl)]

(* DynamoDB PutItem: replaces the item under the key *)
PutItem(tbl, r, item) == [tbl EXCEPT ![r] = Some(item)]

(* single-item read of the raw attribute map *)
GetRawItem(tbl, r) == tbl[r]

ItemStatus(raw) == IF Has(raw) /\ Has(Val(raw).status) THEN Val(Val(raw).status) ELSE ""

(* object keys *)
RequestKey(r) == <<"requests", r>>
ResponseKey(r) == <<"responses", r>>

NoObject == [req |-> None, resp |-> None]

(* Frames on the control channel, one record shape for all actions; conn is
   the connection id of the event that carries a frame to the dispatcher, set
   where the dispatcher reads it *)
Frame(a, r) ==
    [action |-> a, request_id |-> r, chunk_index |-> 0, data |-> Empty,
     body |-> Empty, total_chunks |-> 0, status_code |-> 0, headers |-> "",
     s3_put_url |-> None, s3_response_key |-> None, s3_request_get_url |-> None,
     conn |-> 0]

(* the PING of the agent on connection c *)
PingFrame(c) == [Frame("PING", 0) EXCEPT !.conn = c]

(* the ttl of entry r of the table has passed at time t *)
Expired(tbl, r, t) ==
    Has(tbl[r]) /\ Has(Val(tbl[r]).ttl) /\ Val(Val(tbl[r]).ttl) < t

----------------------------------------------------------------------------
(* Edge Handler: lambdas/http-proxy *)

IdleEdge ==
    [pc |-> "idle", rid |-> 0, tunnel |-> "", conn |-> 0, body |-> Empty,
     next |-> 0, total |-> 0, s3PutURL |-> None, result |-> None,
     nextChunk |-> 0, toDelete |-> {}, sawDone |-> FALSE, written |-> Empty,
     via |-> "", ticks |-> 0, gpolls |-> 0, known |-> {}, sub |-> "",
     ctxDone |-> FALSE, timedOut |-> FALSE, presign |-> FALSE]

Response(code, hdr, body) == [code |-> code, headers |-> hdr, body |-> body]

(* errorResponse: a JSON error body, never bytes of a tunnelled body *)
errorResponse(code) == Response(code, "application/json", Whole("error", code, 1))

UsedReq(r) ==
    \/ \E e \in EdgeIds : edge[e].rid = r
    \/ uploads[r].issued
    \/ calls.url[r].pc # "idle"

(* generateRequestID: an id no request has used *)
FreshReq(r) == ~UsedReq(r) /\ \A q \in ReqIds : q < r => UsedReq(q)

TunnelConnected(it) == TunnelStatus(it) = TunnelStatusActive /\ TunnelHasConn(it)

Min(a, b) == IF a < b THEN a ELSE b

(* totalChunks := (len(body) + wsChunkSize - 1) / wsChunkSize when the body is
   longer than wsChunkSize, else 0 *)
TotalChunks(n) == IF n > wsChunkSize THEN (n + wsChunkSize - 1) \div wsChunkSize ELSE 0

EdgeUnchanged == UNCHANGED <<calls, writeMux, senders, agent, now, tunnels, domains, conns, objects, inflight,
                             chunkBuffers, workers, local, uploads, polls, urlResp>>

InactiveNever(it) == FALSE

(* waitForTunnelReconnect: time.Since(tunnel.UpdatedAt) > 5 minutes; an absent
   updated_at reads as the zero time *)
InactiveTooLong(it) == ~Has(it.updated_at) \/ now - Val(it.updated_at) > RecentMinutes

(* the connections whose connect hook has run its UpdateItem *)
BoundConns == {c \in ConnIds : conns[c].st \in {"open", "closing", "unbinding", "closed"}}

(* handleProxy up to the GetItem of the domain: 404 when there is none.
   kind and n give the request body, after base64 decoding when API Gateway
   encoded it; presignOK tells whether PresignPutObject will succeed for this
   request *)
handleProxy_start(e, sub, kind, n, presignOK) ==
    /\ edge[e].pc = "idle"
    /\ edge' = [edge EXCEPT ![e] =
          IF ~Has(domains[sub])
          THEN [IdleEdge EXCEPT !.pc = "done", !.sub = sub,
                                !.result = Some(errorResponse(404))]
          ELSE [IdleEdge EXCEPT !.pc = "tunnel", !.sub = sub,
                                !.tunnel = Val(domains[sub]),
                                !.body = Whole(kind, e, n),
                                !.presign = presignOK]]
    /\ UNCHANGED <<calls, writeMux, senders, agent, store, wsQueue, pushed>>
    /\ EdgeUnchanged

(* handleProxy: GetItem of the tunnel the domain names: 404 when there is
   none, on to the entry when it is active with a connection_id, 503 when it
   has been inactive too long, else into the grace window; known remembers
   the connections bound before the request arrived *)
handleProxy_tunnel(e) ==
    /\ edge[e].pc = "tunnel"
    /\ LET t == edge[e].tunnel IN
       edge' = [edge EXCEPT ![e] =
          IF ~Has(tunnels[t])
          THEN [IdleEdge EXCEPT !.pc = "done", !.sub = edge[e].sub,
                                !.result = Some(errorResponse(404))]
          ELSE IF TunnelConnected(Val(tunnels[t]))
          THEN [@ EXCEPT !.pc = "put", !.conn = Val(Val(tunnels[t]).connection_id)]
          ELSE IF InactiveTooLong(Val(tunnels[t]))
          THEN [IdleEdge EXCEPT !.pc = "done", !.sub = edge[e].sub, !.tunnel = t,
                                !.result = Some(errorResponse(503))]
          ELSE [@ EXCEPT !.pc = "grace", !.known = BoundConns]]
    /\ UNCHANGED <<calls, writeMux, senders, agent, store, wsQueue, pushed>>
    /\ EdgeUnchanged

handleProxy_putLate(e) ==
    /\ edge[e].pc = "put"
    /\ \E r \in ReqIds :
          /\ FreshReq(r)
          /\ store' = store
          /\ edge' = [edge EXCEPT ![e] =
                [IdleEdge EXCEPT !.pc = "push", !.rid = r, !.sub = edge[e].sub,
                   !.tunnel = edge[e].tunnel, !.conn = edge[e].conn,
                   !.body = edge[e].body, !.known = edge[e].known,
                   !.total = TotalChunks(ByteLen(edge[e].body)),
                   !.s3PutURL = IF edge[e].presign THEN Some(ResponseKey(r)) ELSE None]]
    /\ UNCHANGED <<calls, writeMux, senders, agent, wsQueue, pushed>>
    /\ EdgeUnchanged

(* handleProxy from generateRequestID to the PutItem of the entry, with the
   tunnel record read before *)
handleProxy_put(e) ==
    /\ edge[e].pc = "put"
    /\ \E r \in ReqIds :
          /\ FreshReq(r)
          /\ store' = PutItem(store, r,
                        PendingRequest(edge[e].tunnel, edge[e].body, "pending",
                                       now, now + PendingTTL))
          /\ edge' = [edge EXCEPT ![e] =
                [IdleEdge EXCEPT !.pc = "push", !.rid = r, !.sub = edge[e].sub,
                   !.tunnel = edge[e].tunnel, !.conn = edge[e].conn,
                   !.body = edge[e].body, !.known = edge[e].known,
                   !.total = TotalChunks(ByteLen(edge[e].body)),
                   !.s3PutURL = IF edge[e].presign THEN Some(ResponseKey(r)) ELSE None]]
    /\ UNCHANGED <<calls, writeMux, senders, agent, wsQueue, pushed>>
    /\ EdgeUnchanged

(* the tunnel the grace window waits for, as one poll of the registry reads
   it: active with a connection_id *)
GraceSeesBind(e) ==
    /\ Has(tunnels[edge[e].tunnel])
    /\ TunnelConnected(Val(tunnels[edge[e].tunnel]))

waitForTunnelReconnect_tickStale(e) ==
    /\ edge[e].pc = "grace"
    /\ edge[e].gpolls < GracePolls
    /\ GraceSeesBind(e)
    /\ edge' = [edge EXCEPT ![e].pc = "put",
                            ![e].conn = IF edge[e].known = {} THEN 0
                                        ELSE CHOOSE c \in edge[e].known : TRUE]
    /\ UNCHANGED <<calls, writeMux, senders, agent, store, wsQueue, pushed>>
    /\ EdgeUnchanged

(* waitForTunnelReconnect: a 500 ms tick before the deadline whose GetItem
   reads the tunnel active; handleProxy goes on with the record this poll
   read *)
waitForTunnelReconnect_tick(e) ==
    /\ edge[e].pc = "grace"
    /\ edge[e].gpolls < GracePolls
    /\ GraceSeesBind(e)
    /\ edge' = [edge EXCEPT ![e].pc = "put",
                            ![e].conn = Val(Val(tunnels[edge[e].tunnel]).connection_id)]
    /\ UNCHANGED <<calls, writeMux, senders, agent, store, wsQueue, pushed>>
    /\ EdgeUnchanged

(* waitForTunnelReconnect: a 500 ms tick before the deadline whose GetItem
   fails or reads a tunnel that is not active *)
waitForTunnelReconnect_miss(e) ==
    /\ edge[e].pc = "grace"
    /\ edge[e].gpolls < GracePolls
    /\ ~GraceSeesBind(e)
    /\ edge' = [edge EXCEPT ![e].gpolls = @ + 1]
    /\ UNCHANGED <<calls, writeMux, senders, agent, store, wsQueue, pushed>>
    /\ EdgeUnchanged

(* waitForTunnelReconnect: the first tick after the deadline; it returns the
   error without reading the registry and handleProxy answers 503 *)
waitForTunnelReconnect_deadline(e) ==
    /\ edge[e].pc = "grace"
    /\ edge[e].gpolls = GracePolls
    /\ edge' = [edge EXCEPT ![e].pc = "done", ![e].via = "deadline",
                            ![e].result = Some(errorResponse(503))]
    /\ UNCHANGED <<calls, writeMux, senders, agent, store, wsQueue, pushed>>
    /\ EdgeUnchanged

(* waitForTunnelReconnect: the caller's context is cancelled; handleProxy
   answers 503 for this error too *)
waitForTunnelReconnect_cancel(e) ==
    /\ edge[e].pc = "grace"
    /\ edge' = [edge EXCEPT ![e].pc = "done", ![e].via = "cancel",
                            ![e].result = Some(errorResponse(503))]
    /\ UNCHANGED <<calls, writeMux, senders, agent, store, wsQueue, pushed>>
    /\ EdgeUnchanged

(* the proxy_chunk message of body[start:end], as json.Marshal writes it and
   the agent decodes it *)
ChunkFrame(r, i, body) ==
    [Frame("proxy_chunk", r) EXCEPT
       !.chunk_index = i,
       !.data = ToValidUTF8(Slice(body, i * wsChunkSize,
                                  Min(i * wsChunkSize + wsChunkSize, ByteLen(body))))]

ProxyFrame(r, body, total, putURL) ==
    [Frame("proxy", r) EXCEPT
       !.body = IF total > 0 THEN Empty ELSE ToValidUTF8(body),
       !.total_chunks = total,
       !.s3_put_url = putURL,
       !.s3_response_key = Some(ResponseKey(r))]

(* handleProxy: one PostToConnection, of the next proxy_chunk frame or of the
   final proxy frame; a connection that is gone makes it fail *)
handleProxy_pushSkip(e) ==
    /\ edge[e].pc = "push"
    /\ LET r == edge[e].rid
           c == edge[e].conn
           f == IF edge[e].next < edge[e].total
                THEN ChunkFrame(r, edge[e].next, edge[e].body)
                ELSE ProxyFrame(r, edge[e].body, edge[e].total, edge[e].s3PutURL)
       IN IF Live(c)
          THEN /\ wsQueue' = [wsQueue EXCEPT ![c] = Append(@, f)]
               /\ pushed' = [pushed EXCEPT ![r] = Append(@, f)]
               /\ edge' = [edge EXCEPT
                             ![e].next = @ + 1,
                             ![e].pc = IF edge[e].next < edge[e].total
                                       THEN "push" ELSE "poll"]
          ELSE /\ edge' = [edge EXCEPT
                             ![e].next = @ + 1,
                             ![e].pc = IF edge[e].next < edge[e].total
                                       THEN "push" ELSE "poll"]
               /\ UNCHANGED <<calls, writeMux, senders, agent, wsQueue, pushed>>
    /\ UNCHANGED store
    /\ EdgeUnchanged

handleProxy_push(e) ==
    /\ edge[e].pc = "push"
    /\ LET r == edge[e].rid
           c == edge[e].conn
           f == IF edge[e].next < edge[e].total
                THEN ChunkFrame(r, edge[e].next, edge[e].body)
                ELSE ProxyFrame(r, edge[e].body, edge[e].total, edge[e].s3PutURL)
       IN IF Live(c)
          THEN /\ wsQueue' = [wsQueue EXCEPT ![c] = Append(@, f)]
               /\ pushed' = [pushed EXCEPT ![r] = Append(@, f)]
               /\ edge' = [edge EXCEPT
                             ![e].next = @ + 1,
                             ![e].pc = IF edge[e].next < edge[e].total
                                       THEN "push" ELSE "poll"]
          ELSE /\ edge' = [edge EXCEPT ![e].pc = "done",
                                       ![e].via = "push",
                                       ![e].result = Some(errorResponse(500))]
               /\ UNCHANGED <<calls, writeMux, senders, agent, wsQueue, pushed>>
    /\ UNCHANGED store
    /\ EdgeUnchanged

(* buildS3StreamingResponse: the object fetched from the uploads bucket *)
buildS3StreamingResponse(raw, key) ==
    LET it == Val(raw)
        code == IF Has(it.response_status) THEN Val(it.response_status) ELSE 200
        hdr == IF Has(it.response_headers) THEN Val(it.response_headers) ELSE ""
        obj == IF key[1] = "responses" THEN objects[key[2]].resp ELSE objects[key[2]].req
    IN IF Has(obj) THEN Response(code, hdr, Val(obj)) ELSE errorResponse(502)

(* buildBufferedResponse: response_status, response_headers, response_body *)
buildBufferedResponse(raw) ==
    LET it == Val(raw)
    IN Response(IF Has(it.response_status) THEN Val(it.response_status) ELSE 200,
                IF Has(it.response_headers) THEN Val(it.response_headers) ELSE "",
                IF Has(it.response_body) THEN Val(it.response_body) ELSE Empty)

S3Ready(raw) ==
    /\ Has(raw)
    /\ Has(Val(raw).s3_response_key)
    /\ Has(Val(raw).s3_response_ready)
    /\ Val(Val(raw).s3_response_ready)

(* buildBufferedResponseFromItem: staged response first, else buffered *)
buildBufferedResponseFromItem(raw) ==
    IF S3Ready(raw)
    THEN buildS3StreamingResponse(raw, Val(Val(raw).s3_response_key))
    ELSE buildBufferedResponse(raw)

IsStreaming(raw) ==
    Has(raw) /\ Has(Val(raw).is_streaming) /\ Val(Val(raw).is_streaming)

(* pollAndReturn: a 50 ms tick that finds a response to dispatch *)
pollAndReturn_tick(e) ==
    /\ edge[e].pc = "poll"
    /\ LET raw == GetRawItem(store, edge[e].rid) IN
       \/ /\ IsStreaming(raw)
          /\ edge' = [edge EXCEPT
               ![e].pc = "stream", ![e].via = "stream",
               ![e].result = Some(Response(
                   IF Has(Val(raw).stream_status) THEN Val(Val(raw).stream_status) ELSE 200,
                   IF Has(Val(raw).stream_headers) THEN Val(Val(raw).stream_headers) ELSE "",
                   Empty))]
       \/ /\ ~IsStreaming(raw)
          /\ S3Ready(raw)
          /\ edge' = [edge EXCEPT ![e].pc = "done", ![e].via = "s3",
               ![e].result = Some(buildS3StreamingResponse(raw, Val(Val(raw).s3_response_key)))]
       \/ /\ ~IsStreaming(raw)
          /\ ~S3Ready(raw)
          /\ ItemStatus(raw) = "completed"
          /\ edge' = [edge EXCEPT ![e].pc = "done", ![e].via = "item",
               ![e].result = Some(buildBufferedResponseFromItem(raw))]
    /\ UNCHANGED <<calls, writeMux, senders, agent, store, wsQueue, pushed>>
    /\ EdgeUnchanged

pollAndReturn_abortDelete(e, code) ==
    /\ edge[e].pc = "poll"
    /\ code \in {499, 504}
    /\ edge' = [edge EXCEPT ![e].pc = "done",
                            ![e].via = IF code = 499 THEN "cancel" ELSE "deadline",
                            ![e].result = Some(errorResponse(code))]
    /\ store' = [store EXCEPT ![edge[e].rid] = None]
    /\ UNCHANGED <<calls, writeMux, senders, agent, wsQueue, pushed>>
    /\ EdgeUnchanged

(* pollAndReturn: the 180 s deadline passes (504) or the caller's context is
   cancelled (499) *)
pollAndReturn_abort(e, code) ==
    /\ edge[e].pc = "poll"
    /\ code \in {499, 504}
    /\ edge' = [edge EXCEPT ![e].pc = "done",
                            ![e].via = IF code = 499 THEN "cancel" ELSE "deadline",
                            ![e].result = Some(errorResponse(code))]
    /\ UNCHANGED <<calls, writeMux, senders, agent, store, wsQueue, pushed>>
    /\ EdgeUnchanged

(* buildStreamingResponse and its producer goroutine. pollAndReturn enters
   it on an entry with is_streaming, which no step of the dispatcher or of
   the other functions writes: the steps below are enabled in no behaviour
   and belong to no next-state relation *)

(* the chunks the producer forwards in one tick: nextChunk, nextChunk+1, ...
   while the attribute is present *)
RECURSIVE Forwardable(_, _)
Forwardable(chunks, i) ==
    IF i \in DOMAIN chunks THEN {i} \cup Forwardable(chunks, i + 1) ELSE {}

(* the payloads of the chunks idx, written in index order *)
RECURSIVE ConcatChunks(_, _)
ConcatChunks(chunks, idx) ==
    IF idx = {} THEN Empty
    ELSE LET m == CHOOSE x \in idx : \A y \in idx : x <= y
         IN Concat(chunks[m], ConcatChunks(chunks, idx \ {m}))

(* buildStreamingResponse producer: GetRawItem and the writes to the pipe *)
producer_read(e) ==
    /\ edge[e].pc = "stream"
    /\ LET raw == GetRawItem(store, edge[e].rid) IN
       /\ Has(raw)
       /\ LET chunks == Val(raw).stream_chunk
              fw == Forwardable(chunks, edge[e].nextChunk)
          IN edge' = [edge EXCEPT
                ![e].pc = "remove",
                ![e].written = Concat(@, ConcatChunks(chunks, fw)),
                ![e].nextChunk = IF fw = {} THEN @
                                 ELSE 1 + CHOOSE x \in fw : \A y \in fw : y <= x,
                ![e].toDelete = fw,
                ![e].sawDone = Has(Val(raw).stream_done) /\ Val(Val(raw).stream_done)]
    /\ UNCHANGED <<calls, writeMux, senders, agent, store, wsQueue, pushed>>
    /\ EdgeUnchanged

(* UpdateItem "REMOVE #c0, #c1, ..." with #ci = stream_chunk_{toDelete[i]} *)
RemoveChunks(tbl, r, idx) ==
    [tbl EXCEPT ![r] = Some([UpsertBase(tbl, r, EmptyItem) EXCEPT
        !.stream_chunk = [i \in (DOMAIN @) \ idx |-> @[i]]])]

StopOnDone(done, nextChunk) == done

(* buildStreamingResponse producer: _ = UpdateItem(ctx, REMOVE ...) of the
   chunks written in this tick, then the stream_done test on the item read in
   this tick. The REMOVE is not applied when ctx is done or the call fails
   (ok FALSE); its error is discarded. The call takes ctx alone: the stream
   deadline does not stop it *)
producer_remove(e, ok) ==
    /\ edge[e].pc = "remove"
    /\ store' = IF edge[e].toDelete # {} /\ ok /\ ~edge[e].ctxDone
                THEN RemoveChunks(store, edge[e].rid, edge[e].toDelete)
                ELSE store
    /\ edge' = [edge EXCEPT
          ![e].toDelete = {},
          ![e].pc = IF StopOnDone(edge[e].sawDone, edge[e].nextChunk)
                    THEN "done" ELSE "stream",
          ![e].result = IF StopOnDone(edge[e].sawDone, edge[e].nextChunk)
                        THEN Some([Val(@) EXCEPT !.body = edge[e].written]) ELSE @]
    /\ UNCHANGED <<calls, writeMux, senders, agent, wsQueue, pushed>>
    /\ EdgeUnchanged

(* buildStreamingResponse producer: ctx.Done or the 180 s stream deadline *)
producer_abort(e) ==
    /\ edge[e].pc = "stream"
    /\ edge' = [edge EXCEPT ![e].pc = "aborted",
                            ![e].result = Some([Val(@) EXCEPT !.body = edge[e].written])]
    /\ UNCHANGED <<calls, writeMux, senders, agent, store, wsQueue, pushed>>
    /\ EdgeUnchanged

(* a case of the producer's select other than the ticker is ready *)
StopReady(e) == edge[e].ctxDone \/ edge[e].timedOut

(* the caller of a streaming response goes away (byCtx), or the 180 s timer
   of the producer fires: ctx.Done() or streamTimeout is ready from now on *)
producer_cancelled(e, byCtx) ==
    /\ edge[e].pc \in {"stream", "remove"}
    /\ IF byCtx THEN ~edge[e].ctxDone ELSE ~edge[e].timedOut
    /\ edge' = IF byCtx THEN [edge EXCEPT ![e].ctxDone = TRUE]
                ELSE [edge EXCEPT ![e].timedOut = TRUE]
    /\ UNCHANGED <<calls, writeMux, senders, agent, store, wsQueue, pushed>>
    /\ EdgeUnchanged

(* buildStreamingResponse producer: the select takes the ready ctx.Done() or
   streamTimeout case; the goroutine returns and its defer closes the pipe *)
producer_stop(e) ==
    /\ edge[e].pc = "stream"
    /\ StopReady(e)
    /\ edge' = [edge EXCEPT ![e].pc = "aborted",
                            ![e].result = Some([Val(@) EXCEPT !.body = edge[e].written])]
    /\ UNCHANGED <<calls, writeMux, senders, agent, store, wsQueue, pushed>>
    /\ EdgeUnchanged

----------------------------------------------------------------------------
(* Upload-URL endpoint, poll endpoint, upload-notify *)

NoUpload == [issued |-> FALSE, puts |-> 0, events |-> 0, at |-> 0]

UploadMeta(tbl, r, putURL) ==
    [tbl EXCEPT ![r] = Some([UpsertBase(tbl, r, EmptyItem) EXCEPT
        !.s3_request_key = Some(RequestKey(r)),
        !.s3_response_key = Some(ResponseKey(r)),
        !.s3_response_put_url = Some(putURL)])]

UploadUnchanged == UNCHANGED <<writeMux, senders, agent, now, tunnels, domains, conns,
                               objects, wsQueue, inflight, edge, pushed, chunkBuffers,
                               workers, local, polls>>

(* handleUploadURL up to the GetItem of the domain, which finds a record; r
   is the id generateRequestID will return, presignOK tells whether the
   presign of the response PUT URL will succeed *)
handleUploadURL_at(sub, presignOK, r) ==
    /\ calls.url[r].pc = "idle"
    /\ Has(domains[sub])
    /\ calls' = [calls EXCEPT !.url[r] =
                    [NoCall EXCEPT !.pc = "tunnel", !.sub = sub,
                                   !.tunnel = Val(domains[sub]), !.presign = presignOK]]
    /\ UNCHANGED <<store, uploads, urlResp>>
    /\ UploadUnchanged

(* handleUploadURL: GetItem of the tunnel: 404 when there is none, 503 when
   it is not active *)
handleUploadURL_tunnel(r) ==
    /\ calls.url[r].pc = "tunnel"
    /\ LET t == calls.url[r].tunnel
           sub == calls.url[r].sub
       IN IF ~Has(tunnels[t])
          THEN /\ urlResp' = [urlResp EXCEPT ![sub] = Some(404)]
               /\ calls' = [calls EXCEPT !.url[r] = NoCall]
          ELSE IF TunnelStatus(Val(tunnels[t])) # TunnelStatusActive
          THEN /\ urlResp' = [urlResp EXCEPT ![sub] = Some(503)]
               /\ calls' = [calls EXCEPT !.url[r] = NoCall]
          ELSE /\ urlResp' = urlResp
               /\ calls' = [calls EXCEPT !.url[r].pc = "put"]
    /\ UNCHANGED <<store, uploads>>
    /\ UploadUnchanged

(* handleUploadURL: PutItem of the waiting_upload entry *)
handleUploadURL_put(r) ==
    /\ calls.url[r].pc = "put"
    /\ store' = PutItem(store, r,
                  PendingRequest(calls.url[r].tunnel, Empty, "waiting_upload",
                                 now, now + UploadTTL))
    /\ calls' = [calls EXCEPT !.url[r].pc = "update"]
    /\ UNCHANGED <<uploads, urlResp>>
    /\ UploadUnchanged

(* handleUploadURL: _ = UpdateItem that stores the object keys and the
   presigned response PUT URL ("" when presigning failed), then the 200 with
   the upload URL *)
handleUploadURL_update(r, ok) ==
    /\ calls.url[r].pc = "update"
    /\ store' = IF ok
                THEN UploadMeta(store, r,
                        IF calls.url[r].presign THEN Some(ResponseKey(r)) ELSE None)
                ELSE store
    /\ uploads' = [uploads EXCEPT ![r] =
                     [issued |-> TRUE, puts |-> uploads[r].puts,
                      events |-> uploads[r].events, at |-> now]]
    /\ urlResp' = [urlResp EXCEPT ![calls.url[r].sub] = Some(200)]
    /\ calls' = [calls EXCEPT !.url[r] = NoCall]
    /\ UploadUnchanged

(* handleUploadURL when generateRequestID returns an id no request has used *)
handleUploadURL(sub, presignOK) ==
    \E r \in ReqIds : FreshReq(r) /\ handleUploadURL_at(sub, presignOK, r)

(* handleUploadURL for the first request of a behaviour *)
handleUploadURL_first(sub, presignOK) ==
    FreshReq(FirstReq) /\ handleUploadURL_at(sub, presignOK, FirstReq)

(* generateRequestID: 16 bytes of crypto/rand, any id of the id space *)
generateRequestID == ReqIds

(* handleUploadURL when generateRequestID returns one id call after call *)
handleUploadURL_same(sub, presignOK) ==
    FirstReq \in generateRequestID /\ handleUploadURL_at(sub, presignOK, FirstReq)

handleUploadURL_rejectAs503(sub) ==
    /\ ~Has(domains[sub])
    /\ urlResp' = [urlResp EXCEPT ![sub] = Some(503)]
    /\ UNCHANGED <<calls, store, uploads>>
    /\ UploadUnchanged

(* handleUploadURL: the GetItem of the domain finds nothing: 404 *)
handleUploadURL_reject(sub) ==
    /\ ~Has(domains[sub])
    /\ urlResp' = [urlResp EXCEPT ![sub] = Some(404)]
    /\ UNCHANGED <<calls, store, uploads>>
    /\ UploadUnchanged

(* the caller PUTs the request body to the presigned upload URL (valid for
   30 minutes); S3 fires ObjectCreated under requests/ *)
CallerPut(r, n) ==
    /\ uploads[r].issued
    /\ uploads[r].puts < MaxPut
    /\ now <= uploads[r].at + UploadTTL
    /\ objects' = [objects EXCEPT ![r].req = Some(Whole("up", r, n))]
    /\ uploads' = [uploads EXCEPT ![r].puts = @ + 1, ![r].events = @ + 1]
    /\ UNCHANGED <<calls, writeMux, senders, agent, now, tunnels, domains, conns, store, wsQueue, inflight, edge,
                   pushed, chunkBuffers, workers, local, polls, urlResp>>

StatusBody(v) == << <<v, 202, 0, 1>> >>

(* handlePollResponse *)
handlePollResponse(r) ==
    /\ LET raw == GetRawItem(store, r)
           sv == ItemStatus(raw)
           resp == IF ~Has(raw) \/ ~Has(Val(raw).status) THEN errorResponse(404)
                   ELSE IF sv = "completed" THEN buildBufferedResponseFromItem(raw)
                   ELSE Response(202, "application/json", StatusBody(sv))
       IN /\ polls[r] # Some(resp)
          /\ polls' = [polls EXCEPT ![r] = Some(resp)]
    /\ UNCHANGED <<calls, writeMux, senders, agent, now, tunnels, domains, conns, store, objects, wsQueue, inflight,
                   edge, pushed, chunkBuffers, workers, local, uploads, urlResp>>

(* processUpload: UpdateItem SET status = pending *)
MarkPending(tbl, r) ==
    [tbl EXCEPT ![r] = Some([UpsertBase(tbl, r, EmptyItem) EXCEPT
                               !.status = Some("pending")])]

UploadFrameNoURL(r, it) ==
    [Frame("proxy", r) EXCEPT
       !.s3_put_url = IF Has(it.s3_response_put_url)
                      THEN Val(it.s3_response_put_url) ELSE None,
       !.s3_response_key = it.s3_response_key]

UploadFrame(r, it) ==
    [Frame("proxy", r) EXCEPT
       !.s3_request_get_url = Some(RequestKey(r)),
       !.s3_put_url = IF Has(it.s3_response_put_url)
                      THEN Val(it.s3_response_put_url) ELSE None,
       !.s3_response_key = it.s3_response_key]

NotifyUnchanged == UNCHANGED <<writeMux, senders, agent, now, tunnels, domains, conns,
                               objects, inflight, edge, chunkBuffers, workers, local,
                               polls, urlResp>>

(* the invocation of upload-notify that is not under way and has the least
   number *)
FreeNotify(r, k) ==
    /\ calls.notify[r][k].pc = "idle"
    /\ \A j \in 1..MaxPut : j < k => calls.notify[r][j].pc # "idle"

(* s3-upload-notify handler for one ObjectCreated record of requests/{r}/body,
   up to GetRawItem of the entry and the tunnel_id test *)
processUpload(r) ==
    /\ uploads[r].events > 0
    /\ uploads' = [uploads EXCEPT ![r].events = @ - 1]
    /\ LET raw == GetRawItem(store, r) IN
       IF ~Has(raw) \/ ~Has(Val(raw).tunnel_id)
       THEN calls' = calls
       ELSE \E k \in 1..MaxPut :
               /\ FreeNotify(r, k)
               /\ calls' = [calls EXCEPT !.notify[r][k] =
                     [NoCall EXCEPT !.pc = "tunnel", !.tunnel = Val(Val(raw).tunnel_id),
                                    !.item = raw]]
    /\ UNCHANGED <<store, wsQueue, pushed>>
    /\ NotifyUnchanged

(* processUpload: GetItem of the tunnel, the active and connection_id test *)
processUpload_tunnel(r, k) ==
    /\ calls.notify[r][k].pc = "tunnel"
    /\ LET t == calls.notify[r][k].tunnel IN
       calls' = [calls EXCEPT !.notify[r][k] =
                   IF ~Has(tunnels[t]) THEN NoCall
                   ELSE IF ~TunnelConnected(Val(tunnels[t])) THEN NoCall
                   ELSE [@ EXCEPT !.pc = "mark",
                                  !.conn = Val(Val(tunnels[t]).connection_id)]]
    /\ UNCHANGED <<store, wsQueue, pushed, uploads>>
    /\ NotifyUnchanged

(* processUpload: _ = UpdateItem SET status = pending *)
processUpload_mark(r, k, ok) ==
    /\ calls.notify[r][k].pc = "mark"
    /\ store' = IF ok THEN MarkPending(store, r) ELSE store
    /\ calls' = [calls EXCEPT !.notify[r][k].pc = "post"]
    /\ UNCHANGED <<wsQueue, pushed, uploads>>
    /\ NotifyUnchanged

(* processUpload: PostToConnection of the proxy frame to the connection read
   from the tunnel record *)
processUpload_post(r, k) ==
    /\ calls.notify[r][k].pc = "post"
    /\ LET c == calls.notify[r][k].conn
           f == UploadFrame(r, Val(calls.notify[r][k].item))
       IN IF Live(c)
          THEN /\ wsQueue' = [wsQueue EXCEPT ![c] = Append(@, f)]
               /\ pushed' = [pushed EXCEPT ![r] = Append(@, f)]
          ELSE UNCHANGED <<wsQueue, pushed>>
    /\ calls' = [calls EXCEPT !.notify[r][k] = NoCall]
    /\ UNCHANGED <<store, uploads>>
    /\ NotifyUnchanged

----------------------------------------------------------------------------
(* Agent: cli proxy *)

(* bytes of the serialized proxy_response message around its headers and its
   body: {"action":"proxy_response","data":{"request_id":"<32 hex digits>",
   "response_body":"","response_headers":,"status_code":200}} *)
EnvelopeBytes == 141
(* bytes of one SSE event of the local server *)
EventLen == 8

BinaryTypes == {"video/mp4", "image/png", "application/octet-stream"}

(* isBinaryContentType, over the content types of the model *)
isBinaryContentType(ct) == ct \in BinaryTypes

IsSSE(ct) == ct = "text/event-stream"

(* len(ct) *)
CtLen(ct) ==
    CASE ct = "text/plain" -> 10
      [] ct = "video/mp4" -> 9
      [] ct = "image/png" -> 9
      [] ct = "application/json" -> 16
      [] ct = "application/octet-stream" -> 24
      [] ct = "text/event-stream" -> 17

(* bytes of the serialized response_headers: {"Content-Type":"<ct>"} and hdr
   bytes of further headers *)
HeadersBytes(ct, hdr) == 19 + CtLen(ct) + hdr

(* len(testBytes): json.Marshal of the proxy_response message that carries
   the whole body *)
SerializedLen(ct, hdr, body) == EnvelopeBytes + HeadersBytes(ct, hdr) + JSONLen(body)

(* the body io.ReadAll returns for the answer rs of the local server *)
LocalBody(r, rs) == Whole(rs.kind, r, rs.len)

(* effectiveChunkSize := 120*1024 - overhead, chunkSize when that is not in
   1..chunkSize *)
effectiveChunkSize(overhead) ==
    IF chunkBudget - overhead <= 0 \/ chunkBudget - overhead > chunkSize
    THEN chunkSize ELSE chunkBudget - overhead

CeilDiv(n, d) == (n + d - 1) \div d

(* a proxy_response message as its receiver decodes it *)
ResponseFrame(r, code, ct, body) ==
    [Frame("proxy_response", r) EXCEPT
       !.status_code = code, !.headers = ct, !.body = ToValidUTF8(body)]

(* the proxy_response_chunk frames and the terminal proxy_response: each
   chunk is bodyStr[start:end], serialized by json.Marshal *)
ChunkedFrames(r, code, ct, body, eff) ==
    LET total == CeilDiv(ByteLen(body), eff)
    IN [i \in 1..total |->
          [Frame("proxy_response_chunk", r) EXCEPT
             !.chunk_index = i - 1,
             !.data = ToValidUTF8(Slice(body, (i - 1) * eff,
                                        Min((i - 1) * eff + eff, ByteLen(body))))]]
       \o << [ResponseFrame(r, code, ct, Empty) EXCEPT !.total_chunks = total] >>

(* streamProxyResponse: the proxy_stream_start message with the status and
   the content type of the answer *)
StreamStart(r, code, ct) ==
    [Frame("proxy_stream_start", r) EXCEPT !.status_code = code, !.headers = ct]

(* streamProxyResponse: the proxy_stream_chunk message with chunkIndex i *)
StreamChunk(r, i, data) ==
    [Frame("proxy_stream_chunk", r) EXCEPT
       !.chunk_index = i, !.data = ToValidUTF8(data)]

(* streamProxyResponse: the proxy_stream_end message *)
StreamEnd(r) == Frame("proxy_stream_end", r)

(* An event stream is made of events of EventLen bytes, each the lines of
   the event and the blank line after them. CutLen bytes of an event end in
   the middle of a line, EventLen - 1 bytes are its lines without the blank
   line. ScanReads are the bytes the scanner gets of the next event before
   the body ends or the read fails *)
CutLen == EventLen \div 2
ScanReads == {0, CutLen, EventLen - 1, EventLen}

(* pending + "\n" of the flush after the loop: the lines read of an event
   that was not ended by a blank line, each with its line feed (the scanner
   returns the rest of a line that was cut as a line), and one more line feed *)
PendingData(body, off, n) ==
    Concat(Slice(body, off, off + n), NewLines(IF n = EventLen - 1 THEN 1 ELSE 2))

StagedFrame(r, code, ct, key) ==
    [ResponseFrame(r, code, ct, Empty) EXCEPT !.s3_response_key = key]

(* Texts are sequences of pieces; DQ is the double quote character *)
DQ == "\""

(* err.Error() of the errors the local call returns: url.Error prints its URL
   with %q, io.ReadAll returns the reader's error *)
ErrCreate == << "parse ", DQ, "http://localhost:3000/%zz", DQ,
                ": invalid URL escape ", DQ, "%zz", DQ >>
ErrDo == << "Get ", DQ, "http://localhost:3000/", DQ,
            ": dial tcp 127.0.0.1:3000: connect: connection refused" >>
ErrRead == << "unexpected EOF" >>
ErrDownload == << "S3 GET returned status 403" >>
(* err.Error() of conn.WriteMessage on a dropped connection *)
ErrWrite == << "write tcp 127.0.0.1:50000->127.0.0.1:443: write: broken pipe" >>

(* fmt.Sprintf("<what>: %v", err), the errorMsg of sendProxyErrorResponse *)
ErrorMsg(what, err) == << what >> \o err

(* the failures of the local call: the request cannot be built, cannot be
   sent, the response body cannot be read *)
LocalFailures == {"error/create", "error/do", "error/read"}

DownloadFailure == "error/download"

(* the errorMsg handleProxyRequest passes for each failure *)
ErrorMsgOf(k) ==
    CASE k = "error/create" -> ErrorMsg("Failed to create request: ", ErrCreate)
      [] k = "error/do" -> ErrorMsg("Failed to make request: ", ErrDo)
      [] k = "error/read" -> ErrorMsg("Failed to read response: ", ErrRead)
      [] k = "error/download" -> ErrorMsg("Failed to download request body: ", ErrDownload)
      [] k = "error/chunk" -> ErrorMsg("Failed to send chunk: ", ErrWrite)

(* fmt.Sprintf(`{"error":"%s"}`, errorMsg): the message is pasted as it is *)
ErrorBody(msg) == << "{", DQ, "error", DQ, ":", DQ >> \o msg \o << DQ, "}" >>

(* sendProxyErrorResponse for failure k: the body is the text
   ErrorBody(ErrorMsgOf(k)) *)
ErrorFrame(r, k) ==
    ResponseFrame(r, 500, "application/json",
                  Whole(k, r, Len(ErrorBody(ErrorMsgOf(k)))))

(* sendErrorResponse of handleHTTPRequest: an ERROR message with the request
   id and the error text *)
ErrorMessage(r, k) ==
    [Frame("ERROR", r) EXCEPT !.body = Whole(k, r, Len(ErrorMsgOf(k)))]

(* the RESPONSE message of handleHTTPRequest *)
ResponseMessage(r, code, ct, body) ==
    [Frame("RESPONSE", r) EXCEPT
       !.status_code = code, !.headers = ct, !.body = ToValidUTF8(body)]

WantsStagingOverLimit(f, rs) ==
    /\ SerializedLen(rs.ct, rs.hdr, LocalBody(f.request_id, rs)) > wsMessageLimit
    /\ Has(f.s3_put_url)
    /\ Has(f.s3_response_key)
    /\ (rs.len > s3UploadThreshold \/ isBinaryContentType(rs.ct))

(* the staging test of handleProxyRequest *)
WantsStaging(f, rs) ==
    /\ Has(f.s3_put_url)
    /\ Has(f.s3_response_key)
    /\ (rs.len > s3UploadThreshold \/ isBinaryContentType(rs.ct))

ReplyFramesFallThrough(f, rs, body, staged) ==
    LET r == f.request_id
        size == SerializedLen(rs.ct, rs.hdr, body)
    IN (IF staged THEN << StagedFrame(r, rs.code, rs.ct, f.s3_response_key) >> ELSE << >>)
         \o (IF size > wsMessageLimit
             THEN ChunkedFrames(r, rs.code, rs.ct, body,
                                effectiveChunkSize(size - ByteLen(body)))
             ELSE << ResponseFrame(r, rs.code, rs.ct, body) >>)

(* what handleProxyRequest sends for the answer rs of the local server,
   other than an event stream, with the body read from it; staged tells
   whether the upload to the presigned URL was made and succeeded. The size
   test and the overhead are taken from the serialized message that carries
   the whole body *)
ReplyFrames(f, rs, body, staged) ==
    LET r == f.request_id
        size == SerializedLen(rs.ct, rs.hdr, body)
    IN IF staged THEN << StagedFrame(r, rs.code, rs.ct, f.s3_response_key) >>
       ELSE IF size > wsMessageLimit
            THEN ChunkedFrames(r, rs.code, rs.ct, body,
                               effectiveChunkSize(size - ByteLen(body)))
            ELSE << ResponseFrame(r, rs.code, rs.ct, body) >>

SeqToSet(q) == {q[i] : i \in 1..Len(q)}

AgentUnchanged == UNCHANGED <<agent, calls, now, tunnels, domains, conns, store, edge, pushed,
                              uploads, polls, urlResp>>

PutChunkShared(buf, r, i, data) ==
    [q \in DOMAIN buf |->
        [j \in (DOMAIN buf[q]) \cup {i} |-> IF j = i THEN data ELSE buf[q][j]]]

(* handleProxyChunk *)
PutChunk(buf, r, i, data) ==
    [buf EXCEPT ![r] = [j \in (DOMAIN @) \cup {i} |-> IF j = i THEN data ELSE @[j]]]

(* a goroutine slot without a goroutine *)
NoWorker == [pc |-> "idle", conn |-> 0, f |-> Frame("", 0), body |-> Empty,
             ticks |-> 0, resp |-> None, chunkIndex |-> 0, more |-> FALSE,
             call |-> 0]

(* go p.handleProxyRequest(ctx, message), go p.handleHTTPRequest(ctx, message) *)
NewWorker(c, f) == [NoWorker EXCEPT !.pc = "start", !.conn = c, !.f = f]

(* the goroutines that are running *)
Running == {k \in WorkerIds : workers[k].pc # "idle"}

(* the slot the next goroutine gets *)
FreeWorker(k) ==
    /\ workers[k].pc = "idle"
    /\ \A j \in WorkerIds : j < k => workers[j].pc # "idle"

(* handleWebSocketMessages: one ReadMessage and its switch; a proxy or a
   REQUEST message starts a goroutine of its own *)
handleWebSocketMessages(c) ==
    /\ Live(c)
    /\ wsQueue[c] # <<>>
    /\ LET f == Head(wsQueue[c]) IN
       /\ wsQueue' = [wsQueue EXCEPT ![c] = Tail(@)]
       /\ IF f.action = "proxy_chunk"
          THEN /\ chunkBuffers' = [chunkBuffers EXCEPT ![c] =
                                     PutChunk(@, f.request_id, f.chunk_index, f.data)]
               /\ UNCHANGED workers
          ELSE IF f.action \in {"proxy", "REQUEST"}
          THEN /\ \E k \in WorkerIds :
                     /\ FreeWorker(k)
                     /\ workers' = [workers EXCEPT ![k] = NewWorker(c, f)]
               /\ UNCHANGED chunkBuffers
          ELSE UNCHANGED <<chunkBuffers, workers>>
    /\ UNCHANGED <<writeMux, senders, objects, inflight, local>>
    /\ AgentUnchanged

(* chunks[0] .. chunks[total-1] written to the builder; a missing index reads
   as the empty string *)
RECURSIVE Assemble(_, _, _)
Assemble(chunks, i, total) ==
    IF i >= total THEN Empty
    ELSE Concat(IF i \in DOMAIN chunks THEN chunks[i] ELSE Empty,
                Assemble(chunks, i + 1, total))

(* The writes of the agent one call at a time. A task with frames to send is
   at "lock" before writeMux.Lock(), at "write" inside conn.WriteMessage and
   at "unlock" before writeMux.Unlock() *)
Sending(c, frames) == [pc |-> "lock", out |-> frames, conn |-> c]

(* one call of the local server by the goroutine in slot k: the request
   body sent and the answer read with io.ReadAll *)
LocalCall(k, r, req, rs) ==
    [req |-> req, resp |-> LocalBody(r, rs), code |-> rs.code, ct |-> rs.ct,
     hdr |-> rs.hdr, by |-> k, n |-> Cardinality(local[r]) + 1]

(* the call of handleProxyRequest that is answered with an event stream:
   streamProxyResponse has read nothing of the body yet *)
StreamCall(k, r, req, rs) == [LocalCall(k, r, req, rs) EXCEPT !.resp = Empty]

(* the call n of request r with the answer read up to byte hi *)
ReadUpTo(calls_, r, n, body, hi) ==
    {IF x.n = n THEN [x EXCEPT !.resp = Slice(body, 0, hi)] ELSE x : x \in calls_}

(* handleProxyRequest up to the request body: download from the object store
   or assembly from the reassembly buffer *)
handleProxyRequest_body(k, dlOK) ==
    /\ workers[k].pc = "start"
    /\ workers[k].f.action = "proxy"
    /\ LET f == workers[k].f
           r == f.request_id
           c == workers[k].conn
           fromS3 == Has(f.s3_request_get_url) /\ f.body = Empty
       IN IF fromS3 /\ ~(dlOK /\ Has(objects[r].req))
          THEN /\ senders' = [senders EXCEPT ![k] =
                                 Sending(c, << ErrorFrame(r, DownloadFailure) >>)]
               /\ workers' = [workers EXCEPT ![k].pc = "send"]
               /\ UNCHANGED chunkBuffers
          ELSE LET b0 == IF fromS3 THEN Val(objects[r].req) ELSE f.body
                   b1 == IF f.total_chunks > 0
                         THEN Assemble(chunkBuffers[c][r], 0, f.total_chunks)
                         ELSE b0
               IN /\ workers' = [workers EXCEPT ![k].pc = "local", ![k].body = b1,
                                                ![k].ticks = 0]
                  /\ chunkBuffers' = IF f.total_chunks > 0
                                     THEN [chunkBuffers EXCEPT ![c][r] = <<>>]
                                     ELSE chunkBuffers
                  /\ UNCHANGED senders
    /\ UNCHANGED <<writeMux, objects, wsQueue, inflight, local>>
    /\ AgentUnchanged

(* handleProxyRequest: the call of the local server, client.Do and
   io.ReadAll. resp is the local server's answer or <<>> when the call fails.
   An answer that meets the staging test goes on to the upload, any other to
   the frames of the reply. Of an event stream client.Do returns the status
   and the headers alone: streamProxyResponse sends proxy_stream_start and
   reads the body after it *)
handleProxyRequest_local(k, resp) ==
    /\ workers[k].pc = "local"
    /\ LET f == workers[k].f
           r == f.request_id
           c == workers[k].conn
       IN IF ~Has(resp)
          THEN /\ \E msg \in LocalFailures :
                     senders' = [senders EXCEPT ![k] = Sending(c, << ErrorFrame(r, msg) >>)]
               /\ workers' = [workers EXCEPT ![k].pc = "send"]
               /\ UNCHANGED local
          ELSE LET rs == Val(resp)
                   body == LocalBody(r, rs)
               IN /\ local' = [local EXCEPT ![r] =
                                  @ \cup {IF IsSSE(rs.ct)
                                          THEN StreamCall(k, r, workers[k].body, rs)
                                          ELSE LocalCall(k, r, workers[k].body, rs)}]
                  /\ IF ~IsSSE(rs.ct) /\ WantsStaging(f, rs)
                     THEN /\ workers' = [workers EXCEPT ![k].pc = "upload",
                                                        ![k].resp = resp,
                                                        ![k].ticks = 0]
                          /\ UNCHANGED senders
                     ELSE IF IsSSE(rs.ct)
                     THEN /\ workers' = [workers EXCEPT ![k].pc = "send",
                                                        ![k].resp = resp,
                                                        ![k].chunkIndex = 0,
                                                        ![k].more = TRUE,
                                                        ![k].call = Cardinality(local[r]) + 1]
                          /\ senders' = [senders EXCEPT ![k] =
                                Sending(c, << StreamStart(r, rs.code, rs.ct) >>)]
                     ELSE /\ workers' = [workers EXCEPT ![k].pc = "send",
                                                        ![k].resp = resp]
                          /\ senders' = [senders EXCEPT ![k] =
                                            Sending(c, ReplyFrames(f, rs, body, FALSE))]
    /\ UNCHANGED <<writeMux, objects, wsQueue, inflight, chunkBuffers>>
    /\ AgentUnchanged

(* streamProxyResponse from scanner.Scan on: the scanner gets n bytes of the
   next event. With a whole event the event is sent as the chunk chunkIndex
   and the loop goes on after the send. With less the body has ended or the
   read has failed and the loop ends: lines that are pending are flushed as
   one more chunk, whose failed send is only logged, and proxy_stream_end is
   sent *)
streamProxyResponse_scan(k, n) ==
    /\ workers[k].pc = "scan"
    /\ n \in ScanReads
    /\ LET f == workers[k].f
           r == f.request_id
           c == workers[k].conn
           body == LocalBody(r, Val(workers[k].resp))
           i == workers[k].chunkIndex
           off == i * EventLen
       IN /\ off + n <= ByteLen(body)
          /\ IF n = EventLen
             THEN /\ senders' = [senders EXCEPT ![k] =
                       Sending(c, << StreamChunk(r, i, Slice(body, off, off + n)) >>)]
                  /\ workers' = [workers EXCEPT ![k].pc = "send",
                                                ![k].chunkIndex = i + 1]
             ELSE /\ senders' = [senders EXCEPT ![k] =
                       Sending(c, IF n = 0 THEN << StreamEnd(r) >>
                                  ELSE << StreamChunk(r, i, PendingData(body, off, n)),
                                          StreamEnd(r) >>)]
                  /\ workers' = [workers EXCEPT ![k].pc = "send", ![k].more = FALSE]
          /\ local' = [local EXCEPT ![r] = ReadUpTo(@, r, workers[k].call, body, off + n)]
    /\ UNCHANGED <<writeMux, objects, wsQueue, inflight, chunkBuffers>>
    /\ AgentUnchanged

(* handleProxyRequest: uploadToS3 of the body to the presigned URL; upOK
   tells whether the PUT succeeds. After a failed PUT the body goes inline or
   in chunks *)
handleProxyRequest_upload(k, upOK) ==
    /\ workers[k].pc = "upload"
    /\ LET f == workers[k].f
           r == f.request_id
           rs == Val(workers[k].resp)
           body == LocalBody(r, rs)
       IN /\ objects' = IF upOK
                        THEN [objects EXCEPT ![Val(f.s3_put_url)[2]].resp = Some(body)]
                        ELSE objects
          /\ senders' = [senders EXCEPT ![k] =
                            Sending(workers[k].conn, ReplyFrames(f, rs, body, upOK))]
          /\ workers' = [workers EXCEPT ![k].pc = "send"]
    /\ UNCHANGED <<writeMux, wsQueue, inflight, chunkBuffers, local>>
    /\ AgentUnchanged

(* handleHTTPRequest: the call of the local server for a REQUEST message and
   the RESPONSE message, or the ERROR message when the call fails *)
handleHTTPRequest(k, resp) ==
    /\ workers[k].pc = "start"
    /\ workers[k].f.action = "REQUEST"
    /\ LET f == workers[k].f
           r == f.request_id
           c == workers[k].conn
       IN IF ~Has(resp)
          THEN /\ \E msg \in LocalFailures :
                     senders' = [senders EXCEPT ![k] = Sending(c, << ErrorMessage(r, msg) >>)]
               /\ UNCHANGED local
          ELSE LET rs == Val(resp) IN
               /\ local' = [local EXCEPT ![r] = @ \cup {LocalCall(k, r, f.body, rs)}]
               /\ senders' = [senders EXCEPT ![k] =
                     Sending(c, << ResponseMessage(r, rs.code, rs.ct, LocalBody(r, rs)) >>)]
    /\ workers' = [workers EXCEPT ![k].pc = "send"]
    /\ UNCHANGED <<writeMux, objects, wsQueue, inflight, chunkBuffers>>
    /\ AgentUnchanged

(* keepAlive: the tick of the 30 s ticker, up to the call of
   sendWebSocketMessage with the PING *)
keepAlive(c) ==
    /\ Live(c)
    /\ senders[0] = Idle
    /\ PingFrame(c) \notin InFlight
    /\ agent.pings < MaxPing
    /\ agent' = [agent EXCEPT !.pings = @ + 1]
    /\ senders' = [senders EXCEPT ![0] = Sending(c, << PingFrame(c) >>)]
    /\ UNCHANGED <<objects, wsQueue, inflight, chunkBuffers, workers, local, writeMux>>
    /\ UNCHANGED <<calls, now, tunnels, domains, conns, store, edge, pushed,
                   uploads, polls, urlResp>>

sendWebSocketMessage_nolock(k) ==
    /\ senders[k].pc = "lock"
    /\ writeMux' = TRUE
    /\ senders' = [senders EXCEPT ![k].pc = "write"]
    /\ UNCHANGED <<objects, wsQueue, inflight, chunkBuffers, workers, local>>
    /\ AgentUnchanged

(* writeMux.Lock() of sendWebSocketMessage and of the inline reply: the task
   goes on only when the mutex is free *)
sendWebSocketMessage_lock(k) ==
    /\ senders[k].pc = "lock"
    /\ ~writeMux
    /\ writeMux' = TRUE
    /\ senders' = [senders EXCEPT ![k].pc = "write"]
    /\ UNCHANGED <<objects, wsQueue, inflight, chunkBuffers, workers, local>>
    /\ AgentUnchanged

(* conn.WriteMessage returns: the frame is on the connection *)
sendWebSocketMessage_write(k) ==
    /\ senders[k].pc = "write"
    /\ Live(senders[k].conn)
    /\ inflight' = inflight (+) SetToBag({Head(senders[k].out)})
    /\ senders' = [senders EXCEPT ![k].pc = "unlock"]
    /\ UNCHANGED <<objects, wsQueue, chunkBuffers, workers, local, writeMux>>
    /\ AgentUnchanged

(* writeMux.Unlock(); the task goes on to its next frame, and the goroutine
   of a request ends after its last; streamProxyResponse goes on to read the
   local server *)
sendWebSocketMessage_unlock(k) ==
    /\ senders[k].pc = "unlock"
    /\ writeMux' = FALSE
    /\ senders' = [senders EXCEPT ![k] =
                      IF Len(senders[k].out) > 1
                      THEN Sending(senders[k].conn, Tail(senders[k].out))
                      ELSE Idle]
    /\ workers' = IF k \in WorkerIds /\ Len(senders[k].out) <= 1
                  THEN IF workers[k].more
                       THEN [workers EXCEPT ![k].pc = "scan"]
                       ELSE [workers EXCEPT ![k] = NoWorker]
                  ELSE workers
    /\ UNCHANGED <<objects, wsQueue, inflight, chunkBuffers, local>>
    /\ AgentUnchanged

(* conn.WriteMessage fails on the dropped connection and sendWebSocketMessage
   returns the error: after a proxy_response_chunk the caller goes on to
   sendProxyErrorResponse, after any other frame it logs and returns (so
   does streamProxyResponse, without a proxy_stream_end), except after the
   flushed chunk of a stream, where it logs and goes on to proxy_stream_end *)
sendWebSocketMessage_fail(k) ==
    /\ senders[k].pc = "write"
    /\ ~Live(senders[k].conn)
    /\ senders' = [senders EXCEPT ![k] =
          [pc |-> "unlock", conn |-> senders[k].conn,
           out |-> IF Head(senders[k].out).action = "proxy_response_chunk"
                   THEN << Head(senders[k].out),
                           ErrorFrame(Head(senders[k].out).request_id, "error/chunk") >>
                   ELSE IF Head(senders[k].out).action = "proxy_stream_chunk"
                           /\ Len(senders[k].out) > 1
                   THEN senders[k].out
                   ELSE << Head(senders[k].out) >>]]
    /\ workers' = IF k \in WorkerIds THEN [workers EXCEPT ![k].more = FALSE]
                  ELSE workers
    /\ UNCHANGED <<objects, wsQueue, inflight, chunkBuffers, local, writeMux>>
    /\ AgentUnchanged

(* handleWebSocketMessages: ReadMessage fails on the dropped connection, the
   goroutine logs and returns *)
handleWebSocketMessages_error ==
    /\ agent.reader
    /\ ~Live(agent.conn)
    /\ agent' = [agent EXCEPT !.reader = FALSE]
    /\ UNCHANGED <<now, tunnels, domains, conns, store, objects, wsQueue, inflight,
                   edge, pushed, chunkBuffers, workers, local, uploads, polls,
                   urlResp, writeMux, senders, calls>>

(* keepAlive: the PING of the next tick fails on the dropped connection, the
   goroutine logs and returns *)
keepAlive_error ==
    /\ agent.heartbeat
    /\ ~Live(agent.conn)
    /\ agent' = [agent EXCEPT !.heartbeat = FALSE]
    /\ UNCHANGED <<now, tunnels, domains, conns, store, objects, wsQueue, inflight,
                   edge, pushed, chunkBuffers, workers, local, uploads, polls,
                   urlResp, writeMux, senders, calls>>

(* Start after ctx.Done(): close(stopCh) ends both goroutines, conn.Close()
   closes the connection; the maps of the Proxy are left as they are *)
Start_cleanup ==
    /\ Live(agent.conn)
    /\ agent' = [agent EXCEPT !.reader = FALSE, !.heartbeat = FALSE]
    /\ conns' = [conns EXCEPT ![agent.conn].st = "closing"]
    /\ wsQueue' = [wsQueue EXCEPT ![agent.conn] = <<>>]
    /\ UNCHANGED <<now, tunnels, domains, store, objects, inflight, edge, pushed,
                   chunkBuffers, workers, local, uploads, polls, urlResp,
                   writeMux, senders, calls>>

(* a client sends bytes of its own on its connection: a message that is not
   JSON, a message with an action the dispatcher has no case for *)
WsSend(c, f) ==
    /\ Live(c)
    /\ f \notin InFlight
    /\ inflight' = inflight (+) SetToBag({f})
    /\ UNCHANGED <<calls, writeMux, senders, agent, objects, wsQueue, chunkBuffers, workers, local>>
    /\ AgentUnchanged

(* a REQUEST message arrives on the agent's channel. No code of the
   repository posts one (handleHTTPRequest of lambdas/tunnel-proxy has no
   caller): it comes from outside, once per request id, and not while the
   answer to an earlier one is on its way *)
WsReceive(c, f) ==
    /\ Live(c)
    /\ f \notin SeqToSet(wsQueue[c])
    /\ \A k \in Running : workers[k].f # f
    /\ \A g \in InFlight : g.request_id # f.request_id
    /\ local[f.request_id] = {}
    /\ wsQueue' = [wsQueue EXCEPT ![c] = Append(@, f)]
    /\ UNCHANGED <<calls, writeMux, senders, agent, objects, inflight, chunkBuffers, workers, local>>
    /\ AgentUnchanged

----------------------------------------------------------------------------
(* Dispatcher: lambdas/tunnel-proxy, route $default *)

(* handleProxyResponse: UpdateItem SET status = completed, response_status,
   response_headers, response_body *)
handleProxyResponse(tbl, f) ==
    [tbl EXCEPT ![f.request_id] =
        Some([UpsertBase(tbl, f.request_id, EmptyItem) EXCEPT
                !.status = Some("completed"),
                !.response_status = Some(f.status_code),
                !.response_headers = Some(f.headers),
                !.response_body = Some(f.body)])]

DispatchDefault(tbl, f) ==
    IF f.request_id \in ReqIds THEN handleProxyResponse(tbl, f) ELSE tbl

(* the switch of handler on message.Action *)
Dispatch(tbl, f) ==
    IF f.action = "proxy_response" THEN handleProxyResponse(tbl, f) ELSE tbl

(* a message body that json.Unmarshal rejects *)
MalformedFrame == Frame("{", 0)

Unmarshal(f) == IF f = MalformedFrame THEN None ELSE Some(f)

(* handlePing: PostToConnection of the PONG on a management client built
   by NewFromConfig(cfg) without the endpoint of the API. The call does not
   reach the connection, it returns an error and handler answers 500: no
   queue gets the PONG *)
handlePing(q, f) == q

(* one invocation of handler for one frame of the agent: Unmarshal, then the
   switch on message.Action *)
handler_tunnel_proxy(f) ==
    /\ f \in InFlight
    /\ inflight' = inflight (-) SetToBag({f})
    /\ store' = IF Has(Unmarshal(f)) THEN Dispatch(store, f) ELSE store
    /\ wsQueue' = IF Has(Unmarshal(f)) /\ f.action = "PING"
                  THEN handlePing(wsQueue, f) ELSE wsQueue
    /\ UNCHANGED <<calls, writeMux, senders, agent, now, tunnels, domains, conns, objects, edge, pushed, chunkBuffers,
                   workers, local, uploads, polls, urlResp>>

----------------------------------------------------------------------------
(* Time and expiry *)

EdgeWaiting(e) == edge[e].pc \in {"grace", "poll", "stream"}

(* a minute boundary passes only over work that can last minutes: an edge
   invocation in its grace, poll or stream loop (at most 180 s), an agent
   download from or upload to the object store (at most 5 minutes), an agent
   call of the local server and the reading of its event stream (at most
   180 s); each of them sees at most one boundary *)
Quiescent ==
    /\ inflight = EmptyBag
    /\ \A c \in ConnIds : Live(c) => wsQueue[c] = <<>>
    /\ \A c \in ConnIds : conns[c].st \notin {"auth", "closing", "unbinding"}
    /\ \A e \in EdgeIds : edge[e].pc \notin {"tunnel", "put", "push", "remove"}
    /\ \A e \in EdgeIds : EdgeWaiting(e) => edge[e].ticks = 0
    /\ \A k \in Running :
          /\ \/ workers[k].pc = "start" /\ Has(workers[k].f.s3_request_get_url)
             \/ workers[k].pc \in {"local", "upload", "scan"}
          /\ workers[k].ticks = 0
    /\ \A k \in Tasks : senders[k] = Idle
    /\ \A r \in ReqIds : uploads[r].events = 0
    /\ calls = NoCalls

(* the table's TTL process deletes entry r some time after its ttl has
   passed; until then the entry is read like any other *)
Expire(r) ==
    /\ Expired(store, r, now)
    /\ store' = [store EXCEPT ![r] = None]
    /\ UNCHANGED <<now, calls, writeMux, senders, agent, tunnels, domains, conns, objects,
                   wsQueue, inflight, edge, pushed, chunkBuffers, workers, local,
                   uploads, polls, urlResp>>

(* TickStep minutes pass *)
Tick ==
    /\ now + TickStep <= MaxTime
    /\ Quiescent
    /\ now' = now + TickStep
    /\ store' = store
    /\ edge' = [e \in EdgeIds |->
                  IF EdgeWaiting(e) THEN [edge[e] EXCEPT !.ticks = 1] ELSE edge[e]]
    /\ workers' = [k \in WorkerIds |->
                     IF k \in Running THEN [workers[k] EXCEPT !.ticks = 1]
                     ELSE workers[k]]
    /\ UNCHANGED <<calls, writeMux, senders, agent, tunnels, domains, conns, objects, wsQueue, inflight, pushed,
                   chunkBuffers, local, uploads, polls, urlResp>>

----------------------------------------------------------------------------
(* Initial state: empty tables, no connection, no request *)

Init ==
    /\ now = 0
    /\ tunnels = [t \in TunnelIds |-> None]
    /\ domains = [sd \in Subdomains |-> None]
    /\ conns = [c \in ConnIds |-> NewConn]
    /\ store = [r \in ReqIds |-> None]
    /\ objects = [r \in ReqIds |-> NoObject]
    /\ wsQueue = [c \in ConnIds |-> <<>>]
    /\ inflight = EmptyBag
    /\ edge = [e \in EdgeIds |-> IdleEdge]
    /\ pushed = [r \in ReqIds |-> <<>>]
    /\ chunkBuffers = [c \in ConnIds |-> [r \in ReqIds |-> <<>>]]
    /\ workers = [k \in WorkerIds |-> NoWorker]
    /\ local = [r \in ReqIds |-> {}]
    /\ uploads = [r \in ReqIds |-> NoUpload]
    /\ polls = [r \in ReqIds |-> None]
    /\ urlResp = [sd \in Subdomains |-> None]
    /\ writeMux = FALSE
    /\ calls = NoCalls
    /\ senders = [k \in Tasks |-> Idle]
    /\ agent = NoAgent

----------------------------------------------------------------------------
(* The connection registry alone: tunnel creation and deletion, the connect
   and disconnect hooks *)

(* the create-tunnel requests of the registry behaviours: each client asks
   for the same subdomain, and gets its own tunnel id *)
CreateRequests == {<<"t1", "cl1", "myapp">>, <<"t2", "cl2", "myapp">>}

(* a tunnel id is generated by create-tunnel and reaches its client in the
   answer of create-tunnel, or in the answer of list-tunnels from the moment
   the tunnel record is written: no request names an id that create-tunnel
   has generated and not yet written *)
Announced(t) ==
    t \in TunnelIds => (calls.create[t].pc = "idle" \/ Has(tunnels[t]))

NextRegistry ==
    \/ \E q \in CreateRequests : handler_create_tunnel_check(q[1], q[2], q[3])
    \/ \E t \in TunnelIds, ok \in BOOLEAN : handler_create_tunnel_tunnel(t, ok)
    \/ \E t \in TunnelIds, ok \in BOOLEAN : handler_create_tunnel_domain(t, ok)
    \/ \E t \in TunnelIds, ok \in BOOLEAN : handler_create_tunnel_rollback(t, ok)
    \/ \E t \in TunnelIds, cl \in ClientIds :
          Announced(t) /\ handler_delete_tunnel_get(t, cl)
    \/ \E t \in TunnelIds, ok \in BOOLEAN : handler_delete_tunnel_domain(t, ok)
    \/ \E t \in TunnelIds, ok \in BOOLEAN : handler_delete_tunnel_tunnel(t, ok)
    \/ \E c \in ConnIds, t \in TunnelIds \cup {""}, cl \in ClientIds \cup {""} :
          Announced(t) /\ handler_tunnel_connect_get(c, t, cl)
    \/ \E c \in ConnIds : handler_tunnel_connect_update(c)
    \/ \E c \in ConnIds : WsDisconnect(c)
    \/ \E c \in ConnIds : handler_tunnel_disconnect_scan(c)
    \/ \E c \in ConnIds : handler_tunnel_disconnect_update(c)

SpecRegistry == Init /\ [][NextRegistry]_vars

(* C6: each tunnel of the registry has status active if and only if it has a
   connection_id, after any interleaving of creation, deletion, connect and
   disconnect hooks *)
C6_LifecycleConsistency ==
    \A t \in TunnelIds :
       Has(tunnels[t]) =>
          (TunnelStatus(Val(tunnels[t])) = TunnelStatusActive
             <=> TunnelHasConn(Val(tunnels[t])))

(* a tunnel unbound by the disconnect hook of one connection and bound again
   by the connect hook of another *)
C6_Witness ==
    \E t \in TunnelIds, c \in ConnIds, d \in ConnIds :
       /\ c # d
       /\ conns[c].st = "closed" /\ conns[c].found = t
       /\ conns[d].st = "open" /\ conns[d].tunnel = t
       /\ Has(tunnels[t])
       /\ Val(tunnels[t]).connection_id = Some(d)
       /\ TunnelStatus(Val(tunnels[t])) = TunnelStatusActive

(* no two tunnels of the registry hold the same connection_id *)
NoSharedConnection ==
    \A t \in TunnelIds, u \in TunnelIds :
       (t # u /\ Has(tunnels[t]) /\ Has(tunnels[u])
          /\ TunnelHasConn(Val(tunnels[t])))
       => Val(tunnels[t]).connection_id # Val(tunnels[u]).connection_id

(* C26: the connect hook's update of a tunnel, bound or not, leaves it in
   one step active with the new connection_id, after which a lookup by any
   other connection id, the replaced one included, does not find it; and no
   two tunnels ever hold the same connection_id *)
C26_AtomicRebind ==
    /\ [](NoSharedConnection)
    /\ [][\A c \in ConnIds :
            (conns[c].st = "auth" /\ conns'[c].st = "open") =>
               LET t == conns[c].tunnel IN
               /\ Has(tunnels'[t])
               /\ TunnelStatus(Val(tunnels'[t])) = TunnelStatusActive
               /\ Val(tunnels'[t]).connection_id = Some(c)
               /\ findTunnelByConnectionID(tunnels', c) = {t}
               /\ \A d \in ConnIds \ {c} :
                     (Has(tunnels[t]) /\ Val(tunnels[t]).connection_id = Some(d))
                     => findTunnelByConnectionID(tunnels', d) = {}]_vars

(* C27: the connect hook binds a connection only if the authorizer gave a
   client, the tunnel exists and its owner is that client; it answers 401
   without a client, 400 without a tunnel_id, 404 for an unknown tunnel, 403
   for a tunnel of another client, and then leaves the registry unchanged *)
C27_BindOnlyOwner ==
    [][\A c \in ConnIds :
          LET t == conns'[c].tunnel
              cl == conns'[c].client
          IN /\ (conns[c].st = "new" /\ conns'[c].st # "new") =>
                  /\ tunnels' = tunnels /\ domains' = domains
                  /\ conns'[c].st = "rejected401" <=> cl = ""
                  /\ conns'[c].st = "rejected400" <=> (cl # "" /\ t = "")
                  /\ conns'[c].st = "rejected404" <=>
                        (cl # "" /\ t # "" /\ ~Has(tunnels[t]))
                  /\ conns'[c].st = "rejected403" <=>
                        (cl # "" /\ t # "" /\ Has(tunnels[t])
                           /\ TunnelClient(Val(tunnels[t])) # cl)
             /\ (conns[c].st # "open" /\ conns'[c].st = "open") =>
                  /\ cl # ""
                  /\ Has(tunnels[t])
                  /\ TunnelClient(Val(tunnels[t])) = cl
             /\ \A u \in TunnelIds :
                  (Has(tunnels'[u]) /\ Val(tunnels'[u]).connection_id = Some(c)
                     /\ ~(Has(tunnels[u]) /\ Val(tunnels[u]).connection_id = Some(c)))
                  => /\ Has(tunnels[u])
                     /\ TunnelClient(Val(tunnels[u])) = conns[c].client
                     /\ conns[c].client # ""]_vars

(* a tunnel bound to one open connection was rebound to another: it is active
   with the new connection_id and a lookup by the old one finds nothing *)
C26_Witness ==
    \E t \in TunnelIds, c \in ConnIds, d \in ConnIds :
       /\ c # d
       /\ conns[d].st = "open" /\ conns[d].tunnel = t
       /\ conns[c].st = "open" /\ conns[c].tunnel = t
       /\ Has(tunnels[t])
       /\ TunnelStatus(Val(tunnels[t])) = TunnelStatusActive
       /\ Val(tunnels[t]).connection_id = Some(c)
       /\ findTunnelByConnectionID(tunnels, d) = {}

----------------------------------------------------------------------------
(* The synchronous proxy path: tunnel t1 of client cl1 is registered under
   "myapp" and its agent is connected on connection 1 *)

TheTunnel == "t1"
TheClient == "cl1"
TheSubdomain == "myapp"

ConnectedTunnels ==
    Bind([t \in TunnelIds |->
            IF t = TheTunnel THEN Some(NewTunnel(TheClient, TheSubdomain, 0)) ELSE None],
         TheTunnel, 1, 0)

InitConnected ==
    /\ now = 0
    /\ tunnels = ConnectedTunnels
    /\ domains = [sd \in Subdomains |-> IF sd = TheSubdomain THEN Some(TheTunnel) ELSE None]
    /\ conns = [c \in ConnIds |->
                  IF c = 1 THEN [st |-> "open", tunnel |-> TheTunnel,
                                 client |-> TheClient, found |-> ""]
                  ELSE NewConn]
    /\ store = [r \in ReqIds |-> None]
    /\ objects = [r \in ReqIds |-> NoObject]
    /\ wsQueue = [c \in ConnIds |-> <<>>]
    /\ inflight = EmptyBag
    /\ edge = [e \in EdgeIds |-> IdleEdge]
    /\ pushed = [r \in ReqIds |-> <<>>]
    /\ chunkBuffers = [c \in ConnIds |-> [r \in ReqIds |-> <<>>]]
    /\ workers = [k \in WorkerIds |-> NoWorker]
    /\ local = [r \in ReqIds |-> {}]
    /\ uploads = [r \in ReqIds |-> NoUpload]
    /\ polls = [r \in ReqIds |-> None]
    /\ urlResp = [sd \in Subdomains |-> None]
    /\ writeMux = FALSE
    /\ calls = NoCalls
    /\ senders = [k \in Tasks |-> Idle]
    /\ agent = Started(1)

(* request body lengths: empty, and one byte more than a frame chunk *)
BodyLens == {0, wsChunkSize + 1}

(* an answer of the local server: status, Content-Type, the contents and the
   length of its body, the bytes of its other headers. Bodies of a binary
   content type are bytes that are not UTF-8 *)
LocalAnswer(code, ct, kind, n, hdr) ==
    [code |-> code, ct |-> ct, len |-> n, kind |-> kind, hdr |-> hdr]

LocalResponse(code, ct, n) ==
    LocalAnswer(code, ct, IF isBinaryContentType(ct) THEN "resp.bin" ELSE "resp", n, 0)

(* answers of the local server: small, above the 128 KiB frame limit, binary,
   above the 256 KiB staging threshold *)
LocalResponses ==
    {LocalResponse(200, "text/plain", 2),
     LocalResponse(200, "text/plain", 200000),
     LocalResponse(200, "video/mp4", 3),
     LocalResponse(404, "application/json", 300000)}

(* the agent reconnects, the channel drops *)
Churn ==
    \/ \E c \in ConnIds : handler_tunnel_connect_get(c, TheTunnel, TheClient)
    \/ \E c \in ConnIds : handler_tunnel_connect_update(c)
    \/ \E c \in ConnIds : WsDisconnect(c)
    \/ \E c \in ConnIds : handler_tunnel_disconnect_scan(c)
    \/ \E c \in ConnIds : handler_tunnel_disconnect_update(c)

(* the agent; R is the set of answers of the local server *)
AgentWrites ==
    \/ \E k \in Tasks : sendWebSocketMessage_lock(k)
    \/ \E k \in Tasks : sendWebSocketMessage_write(k)
    \/ \E k \in Tasks : sendWebSocketMessage_unlock(k)

(* the agent on a connection that stays up *)
AgentSteps(R) ==
    \/ \E c \in ConnIds : handleWebSocketMessages(c)
    \/ \E k \in WorkerIds, dlOK \in BOOLEAN : handleProxyRequest_body(k, dlOK)
    \/ \E k \in WorkerIds, resp \in {None} \cup {Some(x) : x \in R} :
          handleProxyRequest_local(k, resp)
    \/ \E k \in WorkerIds, upOK \in BOOLEAN : handleProxyRequest_upload(k, upOK)
    \/ AgentWrites

AgentNext(R) ==
    \/ AgentSteps(R)
    \/ \E k \in Tasks : sendWebSocketMessage_fail(k)

Next ==
    \/ \E e \in OneEdge, sub \in Subdomains, n \in BodyLens, ok \in BOOLEAN :
          handleProxy_start(e, sub, "req", n, ok)
    \/ \E e \in OneEdge : handleProxy_tunnel(e)
    \/ \E e \in OneEdge : handleProxy_put(e)
    \/ \E e \in OneEdge : waitForTunnelReconnect_tick(e)
    \/ \E e \in OneEdge : waitForTunnelReconnect_miss(e)
    \/ \E e \in OneEdge : waitForTunnelReconnect_deadline(e)
    \/ \E e \in OneEdge : waitForTunnelReconnect_cancel(e)
    \/ \E e \in OneEdge : handleProxy_push(e)
    \/ \E e \in OneEdge : pollAndReturn_tick(e)
    \/ \E e \in OneEdge, code \in {499, 504} : pollAndReturn_abort(e, code)
    \/ \E r \in ReqIds : handlePollResponse(r)
    \/ \E f \in InFlight : handler_tunnel_proxy(f)
    \/ AgentNext(LocalResponses)
    \/ Churn

Spec == InitConnected /\ [][Next]_vars

----------------------------------------------------------------------------
(* Claims on the synchronous proxy path *)

BodiesRead(r) == {x.resp : x \in local[r]}

(* C1: when the edge returns the response of a completed entry, its body is
   the body the agent read from the local server, whichever framing the agent
   chose (inline, proxy_response_chunk frames, staging) *)
C1_RoundTrip ==
    \A e \in EdgeIds :
       (edge[e].pc = "done" /\ edge[e].via \in {"item", "s3"}
          /\ local[edge[e].rid] # {})
       => Val(edge[e].result).body \in BodiesRead(edge[e].rid)

(* C8: when the agent has staged the response body in the object store and
   the edge returns the response of that request, the entry holds
   s3_response_key with s3_response_ready = true and the body returned, by
   the poll loop or by the poll endpoint, is the object's, not an inline
   body *)
C8_StagedResponse ==
    /\ \A e \in EdgeIds :
          (edge[e].pc = "done" /\ edge[e].via \in {"item", "s3"}
             /\ Has(objects[edge[e].rid].resp))
          => /\ S3Ready(store[edge[e].rid])
             /\ edge[e].via = "s3"
             /\ Val(edge[e].result).body = Val(objects[edge[e].rid].resp)
    /\ \A r \in ReqIds :
          (Has(polls[r]) /\ Val(polls[r]).code \notin {202, 404}
             /\ Has(objects[r].resp))
          => Val(polls[r]).body = Val(objects[r].resp)

(* C11: a poll of GET /poll/{request_id} answers 404 when there is no entry,
   202 with the status when the status is pending or waiting_upload, and the
   stored response when the status is completed: the entry's response_status
   and response_headers with the entry's response_body or, when the agent
   staged the body in the object store, the staged object; the poll changes
   neither the entry nor the object *)
C11_PollEndpoint ==
    [][\A r \in ReqIds :
          polls'[r] # polls[r] =>
             /\ store' = store /\ objects' = objects
             /\ Has(polls'[r])
             /\ LET resp == Val(polls'[r])
                    sv == ItemStatus(store[r])
                IN /\ ~Has(store[r]) => resp.code = 404
                   /\ sv \in {"pending", "waiting_upload"} =>
                         (resp.code = 202 /\ resp.body = StatusBody(sv))
                   /\ sv = "completed" =>
                         /\ resp.code = Val(Val(store[r]).response_status)
                         /\ resp.headers = Val(Val(store[r]).response_headers)
                         /\ resp.body = IF Has(objects[r].resp)
                                        THEN Val(objects[r].resp)
                                        ELSE Val(Val(store[r]).response_body)]_vars

----------------------------------------------------------------------------
(* The edge handler alone, with an agent that never answers: lookup, grace
   window, entry creation, pushes, poll deadline and caller disconnect, while
   connections come and go and the clock advances *)

EdgeBodyLens == {0, wsChunkSize + 1}

NextEdge ==
    \/ \E e \in OneEdge, sub \in Subdomains, n \in EdgeBodyLens, ok \in BOOLEAN :
          handleProxy_start(e, sub, "req", n, ok)
    \/ \E e \in OneEdge : handleProxy_tunnel(e)
    \/ \E e \in OneEdge : handleProxy_put(e)
    \/ \E e \in OneEdge : waitForTunnelReconnect_tick(e)
    \/ \E e \in OneEdge : waitForTunnelReconnect_miss(e)
    \/ \E e \in OneEdge : waitForTunnelReconnect_deadline(e)
    \/ \E e \in OneEdge : waitForTunnelReconnect_cancel(e)
    \/ \E e \in OneEdge : handleProxy_push(e)
    \/ \E e \in OneEdge, code \in {499, 504} : pollAndReturn_abort(e, code)
    \/ Churn
    \/ Tick
    \/ \E r \in ReqIds : Expire(r)

SpecEdge == InitConnected /\ [][NextEdge]_vars

(* a connect hook bound the tunnel of the request after the request arrived *)
BoundInGrace(e) ==
    \E c \in BoundConns \ edge[e].known : conns[c].tunnel = edge[e].tunnel

(* C12: when a request waits in the grace window and a Bind for its tunnel
   happens before the window elapses, the edge does not end the window with
   503; and the frames of a request that went through the grace window go to
   a connection bound after the request arrived *)
C12_ReconnectInGrace ==
    [][\A e \in EdgeIds :
          /\ (edge[e].pc = "grace" /\ edge'[e].pc = "done"
                 /\ edge'[e].via = "deadline")
               => ~BoundInGrace(e)
          /\ (edge[e].pc = "push" /\ edge[e].known # {}
                 /\ pushed'[edge[e].rid] # pushed[edge[e].rid])
               => edge[e].conn \notin edge[e].known]_vars

(* C12, for a Bind the edge observes: when a registry poll of the grace
   window, made before the deadline, reads the tunnel active with a
   connection_id, the edge leaves the window without 503 and keeps that
   connection_id, which was bound after the request arrived; its next step
   creates the pending entry; every frame it then pushes goes to that
   connection and to no other *)
C12_ReconnectObserved ==
    [][\A e \in EdgeIds :
          /\ (edge[e].pc = "grace" /\ edge'[e].pc # "grace"
                 /\ edge'[e].via # "cancel"
                 /\ edge[e].gpolls < GracePolls /\ GraceSeesBind(e))
               => /\ edge'[e].pc = "put"
                  /\ ~Has(edge'[e].result)
                  /\ edge'[e].conn = Val(Val(tunnels[edge[e].tunnel]).connection_id)
                  /\ edge'[e].conn \notin edge[e].known
          /\ (edge[e].pc = "put" /\ edge'[e] # edge[e])
               => /\ edge'[e].pc = "push"
                  /\ ~Has(edge'[e].result)
                  /\ edge'[e].conn = edge[e].conn
                  /\ ItemStatus(store'[edge'[e].rid]) = "pending"
                  /\ Val(store'[edge'[e].rid]).tunnel_id = Some(edge[e].tunnel)
          /\ (edge[e].pc = "push" /\ pushed'[edge[e].rid] # pushed[edge[e].rid])
               => /\ edge[e].conn \notin edge[e].known
                  /\ wsQueue'[edge[e].conn] =
                        Append(wsQueue[edge[e].conn],
                               pushed'[edge[e].rid][Len(pushed'[edge[e].rid])])
                  /\ \A d \in ConnIds \ {edge[e].conn} : wsQueue'[d] = wsQueue[d]]_vars

(* the request waited while connection 1 was gone, the agent reconnected on
   connection 2, and the proxy frame of the request is queued on connection 2 *)
C12_Witness ==
    \E e \in EdgeIds :
       /\ edge[e].pc = "poll"
       /\ 1 \in edge[e].known
       /\ edge[e].conn = 2
       /\ Len(wsQueue[2]) = 1
       /\ wsQueue[2][1].action = "proxy"
       /\ wsQueue[1] = <<>>

(* the tunnel the subdomain of the model's requests maps to *)
TunnelItem == Val(tunnels[TheTunnel])

(* C13: a request whose tunnel the edge reads not active with an updated_at
   older than 5 minutes is answered 503 at once, without a poll of the
   registry; a grace window in which no poll saw a Bind ends in 503 at its
   deadline; in both cases no entry is created and no frame is pushed *)
C13_InactiveIs503 ==
    [][\A e \in EdgeIds :
          /\ (edge[e].pc = "tunnel" /\ edge'[e].pc # "tunnel"
                 /\ ~(Has(edge'[e].result) /\ Val(edge'[e].result).code = 404))
               => (Has(tunnels[edge[e].tunnel])
                     /\ ~TunnelConnected(Val(tunnels[edge[e].tunnel]))
                     /\ now - Val(Val(tunnels[edge[e].tunnel]).updated_at) > RecentMinutes)
                  <=> (edge'[e].pc = "done" /\ Val(edge'[e].result).code = 503
                         /\ edge'[e].gpolls = 0 /\ edge'[e].rid = 0
                         /\ store' = store /\ wsQueue' = wsQueue
                         /\ pushed' = pushed)
          /\ (edge[e].pc = "grace" /\ edge[e].gpolls = GracePolls
                 /\ edge'[e] # edge[e] /\ edge'[e].ticks = edge[e].ticks)
               => /\ edge'[e].pc = "done" /\ Val(edge'[e].result).code = 503
                  /\ edge'[e].rid = 0
                  /\ store' = store /\ wsQueue' = wsQueue /\ pushed' = pushed]_vars

(* the tunnel went inactive at minute 0 and a request of minute 10 was
   answered 503 without entering the grace window *)
C13_Witness ==
    \E e \in EdgeIds :
       /\ edge[e].pc = "done"
       /\ Val(edge[e].result).code = 503
       /\ edge[e].via = "" /\ edge[e].gpolls = 0 /\ edge[e].rid = 0
       /\ Has(tunnels[TheTunnel])
       /\ TunnelStatus(TunnelItem) = TunnelStatusInactive
       /\ now - Val(TunnelItem.updated_at) > RecentMinutes
       /\ \A r \in ReqIds : ~Has(store[r]) /\ pushed[r] = <<>>

(* C14: when the poll deadline passes without a response the edge returns
   504 and the entry stays as it was, pending; no step of the edge removes or
   changes an existing entry, which leaves the store only when its ttl has
   passed *)
C14_DeadlineIs504 ==
    [][/\ \A e \in EdgeIds :
            /\ (edge[e].pc = "poll" /\ edge'[e].pc = "done"
                   /\ edge'[e].via = "deadline")
                 => /\ Val(edge'[e].result).code = 504
                    /\ ItemStatus(store'[edge[e].rid]) = "pending"
                    /\ store' = store
            /\ (edge'[e] # edge[e] /\ now' = now)
                 => \A r \in ReqIds : Has(store[r]) => store'[r] = store[r]
       /\ \A r \in ReqIds :
            (Has(store[r]) /\ ~Has(store'[r])) => now > Val(Val(store[r]).ttl)]_vars

(* the edge answered 504 and the pending entry is still in the store at the
   minute of its ttl *)
C14_Witness ==
    \E e \in EdgeIds :
       /\ edge[e].pc = "done" /\ edge[e].via = "deadline"
       /\ Val(edge[e].result).code = 504
       /\ ItemStatus(store[edge[e].rid]) = "pending"
       /\ now = Val(Val(store[edge[e].rid]).ttl)

(* C15: when the caller disconnects while the edge waits in the grace window
   or polls the store, the outcome is 499 and the store is left as it is *)
C15_CancelIs499 ==
    [][\A e \in EdgeIds :
          (edge[e].pc \in {"grace", "poll"} /\ edge'[e].pc = "done"
             /\ edge'[e].via = "cancel")
          => /\ Val(edge'[e].result).code = 499
             /\ store' = store]_vars

(* C16: a failed push of a proxy_chunk or proxy frame ends the request with
   500; the failing step pushes nothing and leaves the store alone, no frame
   of that request is pushed afterwards, and its entry stays pending until it
   expires *)
C16_PushFailureIs500 ==
    [][\A e \in EdgeIds :
          /\ (edge[e].pc = "push" /\ ~Live(edge[e].conn) /\ edge'[e] # edge[e])
               => /\ edge'[e].pc = "done"
                  /\ Val(edge'[e].result).code = 500
                  /\ wsQueue' = wsQueue
                  /\ pushed' = pushed
                  /\ store' = store
                  /\ ItemStatus(store'[edge[e].rid]) = "pending"
          /\ (edge[e].pc = "done" /\ edge[e].via = "push")
               => /\ edge'[e] = edge[e]
                  /\ pushed'[edge[e].rid] = pushed[edge[e].rid]
                  /\ \/ store'[edge[e].rid] = store[edge[e].rid]
                     \/ /\ ~Has(store'[edge[e].rid])
                        /\ now > Val(Val(store[edge[e].rid]).ttl)]_vars

C16_Witness ==
    \E e \in EdgeIds :
        /\ edge[e].pc = "done"
        /\ edge[e].via = "push"
        /\ Val(edge[e].result).code = 500
        /\ Len(pushed[edge[e].rid]) >= 1
        /\ edge[e].next < edge[e].total
        /\ ItemStatus(store[edge[e].rid]) = "pending"

----------------------------------------------------------------------------
(* Routing: requests and upload-URL calls for a subdomain that is mapped to
   the connected tunnel, and for one that has no domain record or whose
   domain record names a tunnel that is gone.  create-tunnel writes the
   tunnel record and then the domain record, delete-tunnel deletes the domain
   record and then the tunnel record: a delete-tunnel between the two writes
   of create-tunnel leaves a domain record without its tunnel. *)

DanglingSubdomain == "other"
DanglingTunnel == "t2"

InitRoute ==
    /\ now = 0
    /\ tunnels = ConnectedTunnels
    /\ domains \in {[sd \in Subdomains |->
                       IF sd = TheSubdomain THEN Some(TheTunnel)
                       ELSE IF sd = DanglingSubdomain THEN d ELSE None] :
                    d \in {None, Some(DanglingTunnel)}}
    /\ conns = [c \in ConnIds |->
                  IF c = 1 THEN [st |-> "open", tunnel |-> TheTunnel,
                                 client |-> TheClient, found |-> ""]
                  ELSE NewConn]
    /\ store = [r \in ReqIds |-> None]
    /\ objects = [r \in ReqIds |-> NoObject]
    /\ wsQueue = [c \in ConnIds |-> <<>>]
    /\ inflight = EmptyBag
    /\ edge = [e \in EdgeIds |-> IdleEdge]
    /\ pushed = [r \in ReqIds |-> <<>>]
    /\ chunkBuffers = [c \in ConnIds |-> [r \in ReqIds |-> <<>>]]
    /\ workers = [k \in WorkerIds |-> NoWorker]
    /\ local = [r \in ReqIds |-> {}]
    /\ uploads = [r \in ReqIds |-> NoUpload]
    /\ polls = [r \in ReqIds |-> None]
    /\ urlResp = [sd \in Subdomains |-> None]
    /\ writeMux = FALSE
    /\ calls = NoCalls
    /\ senders = [k \in Tasks |-> Idle]
    /\ agent = Started(1)

NextRoute ==
    \/ \E e \in OneEdge, sub \in Subdomains, n \in EdgeBodyLens, ok \in BOOLEAN :
          handleProxy_start(e, sub, "req", n, ok)
    \/ \E e \in OneEdge : handleProxy_tunnel(e)
    \/ \E e \in OneEdge : handleProxy_put(e)
    \/ \E e \in OneEdge : handleProxy_push(e)
    \/ \E sub \in Subdomains, ok \in BOOLEAN : handleUploadURL(sub, ok)
    \/ \E r \in ReqIds : handleUploadURL_tunnel(r)
    \/ \E r \in ReqIds : handleUploadURL_put(r)
    \/ \E r \in ReqIds, ok \in BOOLEAN : handleUploadURL_update(r, ok)
    \/ \E sub \in Subdomains : handleUploadURL_reject(sub)
    \/ Churn

SpecRoute == InitRoute /\ [][NextRoute]_vars

(* the upload-URL call for sub that reads the tunnel record in this step *)
UrlCallAtTunnel(sub) ==
    {r \in ReqIds : /\ calls.url[r].pc = "tunnel" /\ calls.url[r].sub = sub
                    /\ calls'.url[r] # calls.url[r]}

(* C17: a request or an upload-URL call is answered 404 exactly when its
   read of the domain record finds none or its read of the domain's tunnel
   finds none; it then creates no entry and pushes no frame *)
C17_UnknownIs404 ==
    [][/\ \A e \in EdgeIds :
            /\ (edge[e].pc = "idle" /\ edge'[e].pc # "idle")
                 => /\ ~Has(domains[edge'[e].sub])
                         <=> (edge'[e].pc = "done" /\ Val(edge'[e].result).code = 404)
                    /\ edge'[e].rid = 0
                    /\ store' = store /\ wsQueue' = wsQueue /\ pushed' = pushed
            /\ (edge[e].pc = "tunnel" /\ edge'[e].pc # "tunnel")
                 => /\ ~Has(tunnels[edge[e].tunnel])
                         <=> (edge'[e].pc = "done" /\ Val(edge'[e].result).code = 404)
                    /\ edge'[e].rid = 0
                    /\ store' = store /\ wsQueue' = wsQueue /\ pushed' = pushed
       /\ \A sub \in Subdomains :
            urlResp'[sub] # urlResp[sub]
            => /\ urlResp'[sub] = Some(404)
                    <=> IF UrlCallAtTunnel(sub) = {} THEN ~Has(domains[sub])
                        ELSE \A r \in UrlCallAtTunnel(sub) :
                                ~Has(tunnels[calls.url[r].tunnel])
               /\ urlResp'[sub] = Some(404)
                    => /\ store' = store /\ uploads' = uploads
                       /\ wsQueue' = wsQueue /\ pushed' = pushed]_vars

(* a request and an upload-URL call for the subdomain whose tunnel is gone
   were both answered 404 and the store is empty *)
C17_Witness ==
    /\ domains[DanglingSubdomain] = Some(DanglingTunnel)
    /\ ~Has(tunnels[DanglingTunnel])
    /\ urlResp[DanglingSubdomain] = Some(404)
    /\ \E e \in EdgeIds :
          /\ edge[e].pc = "done" /\ edge[e].sub = DanglingSubdomain
          /\ Val(edge[e].result).code = 404
    /\ \A r \in ReqIds : ~Has(store[r]) /\ pushed[r] = <<>>

----------------------------------------------------------------------------
(* The upload path: upload-URL endpoint, the caller's PUT, upload-notify, the
   agent, the dispatcher, the clock *)

UploadLens == {1048576}

UploadResponses ==
    {LocalResponse(200, "text/plain", 2), LocalResponse(200, "video/mp4", 3)}

NextUpload ==
    \/ \E sub \in Subdomains, ok \in BOOLEAN : handleUploadURL_first(sub, ok)
    \/ \E r \in ReqIds : handleUploadURL_tunnel(r)
    \/ \E r \in ReqIds : handleUploadURL_put(r)
    \/ \E r \in ReqIds, ok \in BOOLEAN : handleUploadURL_update(r, ok)
    \/ \E r \in ReqIds, n \in UploadLens : CallerPut(r, n)
    \/ \E r \in ReqIds : processUpload(r)
    \/ \E r \in ReqIds, k \in 1..MaxPut : processUpload_tunnel(r, k)
    \/ \E r \in ReqIds, k \in 1..MaxPut, ok \in BOOLEAN : processUpload_mark(r, k, ok)
    \/ \E r \in ReqIds, k \in 1..MaxPut : processUpload_post(r, k)
    \/ \E f \in InFlight : handler_tunnel_proxy(f)
    \/ AgentSteps(UploadResponses)
    \/ Tick
    \/ \E r \in ReqIds : Expire(r)

SpecUpload == InitConnected /\ [][NextUpload]_vars

Terminal == {"completed", "failed"}

(* C2: once the status of an entry is completed or failed, no step sets it to
   pending, waiting_upload or streaming *)
C2_TerminalIsFinal ==
    [][\A r \in ReqIds :
          ItemStatus(store[r]) \in Terminal
            => ItemStatus(store'[r]) \notin {"pending", "waiting_upload", "streaming"}]_vars

(* C3: every entry of the store carries a ttl, so that the expiry of the
   table removes it; a patch to a request id whose entry expired or never
   existed leaves no entry, and so no entry without a ttl *)
C3_BoundedPendency ==
    \A r \in ReqIds : Has(store[r]) => Has(Val(store[r]).ttl)

(* C4: no entry carries both response_body and s3_response_key, and an entry
   holding stream chunks has no response_body *)
C4_StateExclusivity ==
    \A r \in ReqIds :
       Has(store[r]) =>
          /\ ~(Has(Val(store[r]).response_body) /\ Has(Val(store[r]).s3_response_key))
          /\ (Val(store[r]).stream_chunk # <<>> => ~Has(Val(store[r]).response_body))

----------------------------------------------------------------------------
(* The SSE path: the edge, the agent answering with an event stream, and the
   dispatcher, whose switch has no case for the stream messages *)

StreamResponses ==
    {LocalResponse(200, "text/event-stream", 2 * EventLen),
     LocalResponse(200, "text/event-stream", 3 * EventLen - 1)}

NextStream ==
    \/ \E e \in OneEdge, ok \in BOOLEAN : handleProxy_start(e, TheSubdomain, "req", 0, ok)
    \/ \E e \in OneEdge : handleProxy_tunnel(e)
    \/ \E e \in OneEdge : handleProxy_put(e)
    \/ \E e \in OneEdge : handleProxy_push(e)
    \/ \E e \in OneEdge : pollAndReturn_tick(e)
    \/ \E e \in OneEdge, code \in {499, 504} : pollAndReturn_abort(e, code)
    \/ \E f \in InFlight : handler_tunnel_proxy(f)
    \/ \E c \in ConnIds : handleWebSocketMessages(c)
    \/ \E k \in WorkerIds : handleProxyRequest_body(k, TRUE)
    \/ \E k \in WorkerIds, resp \in {None} \cup {Some(x) : x \in StreamResponses} :
          handleProxyRequest_local(k, resp)
    \/ \E k \in WorkerIds, n \in ScanReads : streamProxyResponse_scan(k, n)
    \/ AgentWrites

SpecStream == InitConnected /\ [][NextStream]_vars

(* the agent has answered request r with an event stream of one event or
   more, has sent proxy_stream_end after its chunks and has ended, and the
   dispatcher has handled every message of the request *)
StreamHandled(r) ==
    /\ \E x \in local[r] : IsSSE(x.ct) /\ ByteLen(x.resp) >= EventLen
    /\ \A k \in Running : workers[k].f.request_id # r
    /\ \A f \in InFlight : f.request_id # r

(* C7: the edge delivers all the events of an event stream to the caller
   before it closes the response: when it ends a request whose stream the
   agent has sent up to proxy_stream_end and the dispatcher has handled, the
   caller still waiting, the response is the stream and its body is every
   chunk the agent sent *)
C7_StreamComplete ==
    [][\A e \in EdgeIds :
          (edge[e].pc = "poll" /\ edge'[e].pc = "done" /\ edge'[e].via # "cancel"
             /\ StreamHandled(edge[e].rid))
             => /\ edge'[e].via = "stream"
                /\ Val(edge'[e].result).body \in BodiesRead(edge[e].rid)]_vars

----------------------------------------------------------------------------
(* Request framing: the edge pushes request bodies of lengths around the
   90 KiB frame chunk, the channel may drop at any point; the agent's reader
   buffers the chunks and its worker assembles the body *)

ChunkBodyLens ==
    {0, 1, wsChunkSize - 1, wsChunkSize, wsChunkSize + 1,
     2 * wsChunkSize, 2 * wsChunkSize + 1, 3 * wsChunkSize}

(* request bodies: ASCII text of each length, and text with a two-byte
   character across the first chunk boundary *)
ChunkBodies ==
    {<<"req", n>> : n \in ChunkBodyLens}
      \cup {<<"req.utf8", n>> : n \in {wsChunkSize + 1, 2 * wsChunkSize + 1}}

NextChunk ==
    \/ \E e \in OneEdge, b \in ChunkBodies, ok \in BOOLEAN :
          handleProxy_start(e, TheSubdomain, b[1], b[2], ok)
    \/ \E e \in OneEdge : handleProxy_tunnel(e)
    \/ \E e \in OneEdge : handleProxy_put(e)
    \/ \E e \in OneEdge : handleProxy_push(e)
    \/ \E c \in ConnIds : handleWebSocketMessages(c)
    \/ \E k \in WorkerIds : handleProxyRequest_body(k, TRUE)
    \/ \E c \in ConnIds : WsDisconnect(c)

SpecChunk == InitConnected /\ [][NextChunk]_vars

FCHUNK == wsChunkSize

ExpectedChunks(n) ==
    IF n > FCHUNK THEN (IF n % FCHUNK = 0 THEN n \div FCHUNK ELSE n \div FCHUNK + 1)
    ELSE 0

RECURSIVE DataOf(_, _)
DataOf(log, k) == IF k = 0 THEN Empty ELSE Concat(DataOf(log, k - 1), log[k].data)

(* C9: the frames the edge pushes for a request are, in this order, the
   proxy_chunk frames 0..N-1 with N = ceil(|body| / FCHUNK) when the body is
   longer than FCHUNK (N = 0 otherwise), each of at most FCHUNK bytes and
   together the body, then one proxy frame with total_chunks = N whose body
   is empty when N > 0 and the whole body when N = 0; the edge polls only
   after all of them *)
C9_RequestChunking ==
    \A e \in EdgeIds :
       edge[e].rid # 0 =>
          LET log == pushed[edge[e].rid]
              body == edge[e].body
              N == ExpectedChunks(ByteLen(body))
          IN /\ Len(log) <= N + 1
             /\ \A i \in 1..Len(log) :
                   IF i <= N
                   THEN /\ log[i].action = "proxy_chunk"
                        /\ log[i].chunk_index = i - 1
                        /\ ByteLen(log[i].data) <= FCHUNK
                   ELSE /\ log[i].action = "proxy"
                        /\ log[i].total_chunks = N
                        /\ log[i].body = (IF N > 0 THEN Empty ELSE body)
                        /\ DataOf(log, N) = (IF N > 0 THEN body ELSE Empty)
             /\ edge[e].pc = "poll" => Len(log) = N + 1

----------------------------------------------------------------------------
(* The upload-URL endpoint and upload-notify alone, while connections come
   and go *)

NextNotify ==
    \/ \E sub \in Subdomains, ok \in BOOLEAN : handleUploadURL_first(sub, ok)
    \/ \E r \in ReqIds : handleUploadURL_tunnel(r)
    \/ \E r \in ReqIds : handleUploadURL_put(r)
    \/ \E r \in ReqIds, ok \in BOOLEAN : handleUploadURL_update(r, ok)
    \/ \E r \in ReqIds, n \in UploadLens : CallerPut(r, n)
    \/ \E r \in ReqIds : processUpload(r)
    \/ \E r \in ReqIds, k \in 1..MaxPut : processUpload_tunnel(r, k)
    \/ \E r \in ReqIds, k \in 1..MaxPut, ok \in BOOLEAN : processUpload_mark(r, k, ok)
    \/ \E r \in ReqIds, k \in 1..MaxPut : processUpload_post(r, k)
    \/ Churn

SpecNotify == InitConnected /\ [][NextNotify]_vars

RegistryConn(t) ==
    IF Has(tunnels[t]) /\ TunnelConnected(Val(tunnels[t]))
    THEN Val(tunnels[t]).connection_id ELSE None

IsUploadFrame(f, r) ==
    /\ f.action = "proxy"
    /\ f.request_id = r
    /\ f.s3_request_get_url = Some(RequestKey(r))
    /\ f.body = Empty

(* the steps of one upload-URL call leave every queue as it is, and its
   PutItem creates the entry of the request, with status waiting_upload, and
   changes no other entry *)
UploadURLCreates(r) ==
    /\ calls'.url[r] # calls.url[r]
          => (wsQueue' = wsQueue /\ pushed' = pushed /\ inflight' = inflight)
    /\ (calls.url[r].pc = "put" /\ calls'.url[r].pc = "update")
          => /\ ~Has(store[r])
             /\ ItemStatus(store'[r]) = "waiting_upload"
             /\ \A q \in ReqIds \ {r} : store'[q] = store[q]

(* C10: a call of the upload-URL endpoint creates one entry, with status
   waiting_upload, and pushes no frame; the upload-notify invocation of a
   waiting_upload entry sets the status of the entry to pending and, when it
   pushes, the tunnel being connected and the connection open, it pushes one
   proxy frame with s3_request_get_url and an empty body to the connection
   the registry holds for the tunnel at that moment, and to no other *)
C10_UploadNotify ==
    [][\A r \in ReqIds :
          /\ UploadURLCreates(r)
          /\ \A k \in 1..MaxPut :
               /\ (calls.notify[r][k].pc = "mark" /\ calls'.notify[r][k].pc = "post"
                     /\ store' # store)
                    => ItemStatus(store'[r]) = "pending"
               /\ (calls.notify[r][k].pc = "post" /\ calls'.notify[r][k].pc = "idle"
                     /\ Has(RegistryConn(calls.notify[r][k].tunnel)))
                    => LET c == Val(RegistryConn(calls.notify[r][k].tunnel))
                       IN /\ \A d \in ConnIds \ {c} : wsQueue'[d] = wsQueue[d]
                          /\ Live(c) =>
                               /\ Len(wsQueue'[c]) = Len(wsQueue[c]) + 1
                               /\ SubSeq(wsQueue'[c], 1, Len(wsQueue[c])) = wsQueue[c]
                               /\ IsUploadFrame(wsQueue'[c][Len(wsQueue'[c])], r)]_vars

(* C10, call by call: a call of the upload-URL endpoint creates one entry,
   with status waiting_upload, and pushes no frame; the upload-notify
   invocation of an entry reads the tunnel and goes on exactly when the
   tunnel is active with a connection_id, which it keeps; its update, unless
   it fails, sets the status of the entry to pending and changes nothing
   else; its push appends, when the connection it read is open, one proxy
   frame with s3_request_get_url and an empty body to that connection, and
   no step of it touches another connection *)
C10_UploadNotifyAsRead ==
    [][\A r \in ReqIds :
          /\ UploadURLCreates(r)
          /\ \A k \in 1..MaxPut :
               LET cl == calls.notify[r][k]
                   cl2 == calls'.notify[r][k]
               IN /\ (cl.pc = "tunnel" /\ cl2 # cl)
                       => /\ store' = store /\ wsQueue' = wsQueue /\ pushed' = pushed
                          /\ IF Has(RegistryConn(cl.tunnel))
                             THEN cl2.pc = "mark" /\ Some(cl2.conn) = RegistryConn(cl.tunnel)
                             ELSE cl2.pc = "idle"
                  /\ (cl.pc = "mark" /\ cl2 # cl)
                       => /\ cl2.pc = "post" /\ cl2.conn = cl.conn
                          /\ wsQueue' = wsQueue /\ pushed' = pushed
                          /\ \/ store' = store
                             \/ /\ ItemStatus(store'[r]) = "pending"
                                /\ store' = MarkPending(store, r)
                  /\ (cl.pc = "post" /\ cl2 # cl)
                       => /\ cl2.pc = "idle"
                          /\ store' = store
                          /\ \A d \in ConnIds \ {cl.conn} : wsQueue'[d] = wsQueue[d]
                          /\ IF Live(cl.conn)
                             THEN /\ Len(wsQueue'[cl.conn]) = Len(wsQueue[cl.conn]) + 1
                                  /\ SubSeq(wsQueue'[cl.conn], 1, Len(wsQueue[cl.conn]))
                                        = wsQueue[cl.conn]
                                  /\ IsUploadFrame(wsQueue'[cl.conn][Len(wsQueue'[cl.conn])], r)
                                  /\ pushed'[r] = Append(pushed[r],
                                                         wsQueue'[cl.conn][Len(wsQueue'[cl.conn])])
                             ELSE wsQueue' = wsQueue /\ pushed' = pushed]_vars

(* the notify event of a waiting_upload entry has set it to pending and its one
   proxy frame went to connection 2, to which the agent had reconnected *)
C10_Witness ==
    \E r \in ReqIds :
       /\ uploads[r].issued
       /\ uploads[r].puts = 1 /\ uploads[r].events = 0
       /\ ItemStatus(store[r]) = "pending"
       /\ Len(pushed[r]) = 1
       /\ IsUploadFrame(pushed[r][1], r)
       /\ wsQueue[2] = pushed[r]

(* the proxy frames among the frames pushed for one request_id *)
ProxyFrames(log) == {i \in 1..Len(log) : log[i].action = "proxy"}

(* C18: at most one proxy frame is ever pushed for a request_id *)
C18_OneProxyFrame ==
    \A r \in ReqIds : Cardinality(ProxyFrames(pushed[r])) <= 1

----------------------------------------------------------------------------
(* Entry creation when generateRequestID may return an id already in the
   store: the upload-URL endpoint, the caller's PUT, upload-notify, the clock *)

NextPut ==
    \/ \E sub \in Subdomains, ok \in BOOLEAN : handleUploadURL_same(sub, ok)
    \/ \E r \in ReqIds : handleUploadURL_tunnel(r)
    \/ \E r \in ReqIds : handleUploadURL_put(r)
    \/ \E r \in ReqIds, ok \in BOOLEAN : handleUploadURL_update(r, ok)
    \/ \E r \in ReqIds, n \in UploadLens : CallerPut(r, n)
    \/ \E r \in ReqIds : processUpload(r)
    \/ \E r \in ReqIds, k \in 1..MaxPut : processUpload_tunnel(r, k)
    \/ \E r \in ReqIds, k \in 1..MaxPut, ok \in BOOLEAN : processUpload_mark(r, k, ok)
    \/ \E r \in ReqIds, k \in 1..MaxPut : processUpload_post(r, k)
    \/ Tick
    \/ \E r \in ReqIds : Expire(r)

SpecPut == InitConnected /\ [][NextPut]_vars

(* C19: creating a request never replaces an entry that is in the store: an
   entry keeps its created_at and ttl while it is stored and never returns
   to its initial status *)
C19_PutKeepsExisting ==
    [][\A r \in ReqIds :
          (Has(store[r]) /\ Has(store'[r]))
          => /\ Val(store'[r]).created_at = Val(store[r]).created_at
             /\ Val(store'[r]).ttl = Val(store[r]).ttl
             /\ ItemStatus(store'[r]) = "waiting_upload"
                  => ItemStatus(store[r]) = "waiting_upload"]_vars

(* the response view of an entry *)
ResponseView(it) ==
    <<it.response_status, it.response_headers, it.response_body,
      it.s3_response_key, it.s3_response_ready>>

(* C20: the response view of a completed entry is not changed while the entry
   is stored *)
C20_CompletedViewFrozen ==
    [][\A r \in ReqIds :
          (ItemStatus(store[r]) = "completed" /\ Has(store'[r]))
          => ResponseView(Val(store'[r])) = ResponseView(Val(store[r]))]_vars

----------------------------------------------------------------------------
(* Responses framed as proxy_response_chunk frames *)

(* the local body of request r went out as chunk frames: it was not staged
   and its terminal frame would have exceeded the frame limit *)
SentChunked(r) ==
    /\ local[r] # {}
    /\ ~Has(objects[r].resp)
    /\ \A x \in local[r] : SerializedLen(x.ct, x.hdr, x.resp) > wsMessageLimit

(* C22: the dispatcher stores each proxy_response_chunk on the entry and
   records total_chunks of the terminal proxy_response, and the edge returns
   the body reassembled from the chunks, not an empty or partial one *)
C22_ChunkedResponse ==
    [][/\ \A f \in Dispatched :
            /\ f.action = "proxy_response_chunk" =>
                  /\ Has(store'[f.request_id])
                  /\ f.chunk_index \in DOMAIN Val(store'[f.request_id]).stream_chunk
                  /\ Val(store'[f.request_id]).stream_chunk[f.chunk_index] = f.data
            /\ (f.action = "proxy_response" /\ f.total_chunks > 0) =>
                  /\ Has(store'[f.request_id])
                  /\ Val(store'[f.request_id]).total_chunks = Some(f.total_chunks)
       /\ \A e \in EdgeIds :
            (edge[e].pc = "poll" /\ edge'[e].pc = "done" /\ edge'[e].via = "item"
               /\ SentChunked(edge[e].rid))
            => Val(edge'[e].result).body \in BodiesRead(edge[e].rid)]_vars

----------------------------------------------------------------------------
(* Request reassembly in the agent: two callers push chunked requests to the
   same connection, the frames of the two requests interleave in any order
   that keeps each request's own order, the agent's reader buffers the chunks
   and one worker per proxy frame assembles its body and calls the local
   server *)

AgentBodyLens == {wsChunkSize + 1, 2 * wsChunkSize + 1}

AgentResponses == {LocalResponse(200, "text/plain", 2)}

(* request bodies: ASCII text, and text with a two-byte character across
   the first chunk boundary *)
AgentBodyKinds == {"req", "req.utf8"}

NextAgent ==
    \/ \E e \in EdgeIds, kind \in AgentBodyKinds, n \in AgentBodyLens :
          handleProxy_start(e, TheSubdomain, kind, n, FALSE)
    \/ \E e \in EdgeIds : handleProxy_tunnel(e)
    \/ \E e \in EdgeIds : handleProxy_put(e)
    \/ \E e \in EdgeIds : handleProxy_push(e)
    \/ \E c \in ConnIds : handleWebSocketMessages(c)
    \/ \E k \in WorkerIds : handleProxyRequest_body(k, TRUE)
    \/ \E k \in WorkerIds, resp \in {Some(x) : x \in AgentResponses} :
          handleProxyRequest_local(k, resp)
    \/ AgentWrites
    \/ \E c \in ConnIds : WsDisconnect(c)

SpecAgent == InitConnected /\ [][NextAgent]_vars

(* the payloads of proxy_chunk 0..N-1 pushed for request r, concatenated *)
ChunkPayloads(r, N) == DataOf(pushed[r], N)

(* C23: the body a goroutine hands to the local server for a proxy frame
   with total_chunks = N > 0 is the concatenation of the payloads of
   proxy_chunk 0..N-1 of its request_id, as the edge pushed them *)
C23_Reassembly ==
    /\ \A k \in Running :
          (workers[k].pc = "local" /\ workers[k].f.total_chunks > 0)
          => workers[k].body
                = ChunkPayloads(workers[k].f.request_id, workers[k].f.total_chunks)
    /\ \A r \in ReqIds : \A x \in local[r] :
          \A e \in EdgeIds :
             (edge[e].rid = r /\ edge[e].total > 0)
             => x.req = ChunkPayloads(r, edge[e].total)

(* a goroutine has assembled the body of one request while the reassembly
   buffer holds chunk 0 of the other request, whose proxy frame is still to
   come: the frames of the two requests interleaved on the connection *)
C23_Witness ==
    \E k \in Running, r \in ReqIds :
       /\ r # workers[k].f.request_id
       /\ workers[k].pc = "local"
       /\ workers[k].f.total_chunks = 2
       /\ workers[k].body = ChunkPayloads(workers[k].f.request_id, 2)
       /\ workers[k].body # Empty
       /\ 0 \in DOMAIN chunkBuffers[workers[k].conn][r]
       /\ ProxyFrames(pushed[r]) = {}

----------------------------------------------------------------------------
(* Stream start and stream end, from the dispatcher to the edge *)

StreamStartFields(it) ==
    <<it.status, it.stream_status, it.stream_headers, it.is_streaming>>

(* C24: proxy_stream_start patches the entry in one update to status
   streaming with stream_status, stream_headers and is_streaming = true, and
   proxy_stream_end sets stream_done = true, nothing else of the entry
   changing, so that a pending entry whose agent streams becomes streaming *)
C24_StreamStartEnd ==
    [][\A f \in Dispatched :
          LET r == f.request_id IN
          /\ (f.action = "proxy_stream_start" /\ Has(store[r])) =>
                /\ Has(store'[r])
                /\ StreamStartFields(Val(store'[r])) =
                      <<Some("streaming"), Some(f.status_code), Some(f.headers), Some(TRUE)>>
                /\ [Val(store'[r]) EXCEPT !.status = None, !.stream_status = None,
                       !.stream_headers = None, !.is_streaming = None]
                   = [Val(store[r]) EXCEPT !.status = None, !.stream_status = None,
                       !.stream_headers = None, !.is_streaming = None]
                /\ ItemStatus(store[r]) = "pending" => ItemStatus(store'[r]) = "streaming"
          /\ (f.action = "proxy_stream_end" /\ Has(store[r])) =>
                /\ Has(store'[r])
                /\ Val(store'[r]) = [Val(store[r]) EXCEPT !.stream_done = Some(TRUE)]]_vars

----------------------------------------------------------------------------
(* Frames the dispatcher drops: the synchronous path with the agent's PINGs,
   the chunk frames of large responses, the ERROR and RESPONSE messages of
   handleHTTPRequest, and a message that is not JSON *)

NoiseFrames == {MalformedFrame}

FrameResponses ==
    {LocalResponse(200, "text/plain", 2), LocalResponse(200, "text/plain", 200000)}

NextFrames ==
    \/ \E e \in OneEdge : handleProxy_start(e, TheSubdomain, "req", 0, FALSE)
    \/ \E e \in OneEdge : handleProxy_tunnel(e)
    \/ \E e \in OneEdge : handleProxy_put(e)
    \/ \E e \in OneEdge : handleProxy_push(e)
    \/ \E e \in OneEdge : pollAndReturn_tick(e)
    \/ \E e \in OneEdge : pollAndReturn_abort(e, 504)
    \/ \E c \in ConnIds : WsReceive(c, Frame("REQUEST", MaxReq))
    \/ \E c \in ConnIds : handleWebSocketMessages(c)
    \/ \E k \in WorkerIds : handleProxyRequest_body(k, TRUE)
    \/ \E k \in WorkerIds, resp \in {None} \cup {Some(x) : x \in FrameResponses} :
          handleProxyRequest_local(k, resp)
    \/ \E k \in WorkerIds, resp \in {None, Some(LocalResponse(200, "text/plain", 2))} :
          handleHTTPRequest(k, resp)
    \/ AgentWrites
    \/ \E c \in ConnIds : keepAlive(c)
    \/ \E c \in ConnIds, f \in NoiseFrames : WsSend(c, f)
    \/ \E f \in InFlight : handler_tunnel_proxy(f)

SpecFrames == InitConnected /\ [][NextFrames]_vars

HandledActions == {"PING", "RESPONSE", "proxy_response"}

Dropped(f) == f = MalformedFrame \/ f.action \notin HandledActions \/ f.action = "PING"

(* C25: the dispatcher's invocation for a frame it cannot parse, a frame
   with an action it has no case for, or a PING leaves the pending-request
   store, the staged objects and the registry as they are and no edge
   invocation moves; what an edge returns for a completed entry is what the
   proxy_response of the request stored *)
C25_DroppedFrames ==
    [][/\ \A f \in Dispatched :
            Dropped(f) =>
               /\ store' = store
               /\ objects' = objects
               /\ tunnels' = tunnels
               /\ domains' = domains
               /\ edge' = edge
               /\ polls' = polls
       /\ \A e \in EdgeIds :
            (edge[e].pc = "poll" /\ edge'[e].pc = "done" /\ edge'[e].via = "item")
            => \/ local[edge[e].rid] # {}
                  /\ Val(edge'[e].result).code = 200
                  /\ Val(edge'[e].result).headers = "text/plain"
               \/ local[edge[e].rid] = {}
                  /\ \E msg \in LocalFailures :
                        Val(edge'[e].result) =
                           Response(500, "application/json",
                                    ErrorFrame(edge[e].rid, msg).body)]_vars

(* the dispatcher has handled the PING of the heartbeat, which is written
   and no longer in flight, and dropped the chunk frames of a large response;
   the request's entry is still pending, its edge polls and only the terminal
   proxy_response is yet to be handled *)
C25_Witness ==
    \E e \in EdgeIds, c \in ConnIds :
       /\ edge[e].pc = "poll"
       /\ ItemStatus(store[edge[e].rid]) = "pending"
       /\ Live(c)
       /\ agent.conn = c
       /\ agent.pings > 0
       /\ senders[0] = Idle
       /\ wsQueue[c] = <<>>
       /\ inflight # EmptyBag
       /\ \A f \in InFlight : f.action = "proxy_response" /\ f.total_chunks = 3
       /\ local[edge[e].rid] # {}
       /\ \A x \in local[edge[e].rid] : ByteLen(x.resp) = 200000

----------------------------------------------------------------------------
(* The agent's writers: the keepAlive goroutine and the goroutines of
   handleProxyRequest share one connection and one write mutex; the
   connection can drop under them *)

WriteResponses ==
    {LocalResponse(200, "text/plain", 2),
     LocalResponse(200, "text/plain", 200000),
     LocalResponse(200, "text/event-stream", 2 * EventLen),
     LocalResponse(200, "text/event-stream", 2 * EventLen - 1)}

NextWrite ==
    \/ \E e \in EdgeIds : handleProxy_start(e, TheSubdomain, "req", 0, FALSE)
    \/ \E e \in EdgeIds : handleProxy_tunnel(e)
    \/ \E e \in EdgeIds : handleProxy_put(e)
    \/ \E e \in EdgeIds : handleProxy_push(e)
    \/ \E c \in ConnIds : handleWebSocketMessages(c)
    \/ \E k \in WorkerIds : handleProxyRequest_body(k, TRUE)
    \/ \E k \in WorkerIds, resp \in {None} \cup {Some(x) : x \in WriteResponses} :
          handleProxyRequest_local(k, resp)
    \/ \E k \in WorkerIds, n \in ScanReads : streamProxyResponse_scan(k, n)
    \/ \E c \in ConnIds : keepAlive(c)
    \/ \E k \in Tasks : sendWebSocketMessage_lock(k)
    \/ \E k \in Tasks : sendWebSocketMessage_write(k)
    \/ \E k \in Tasks : sendWebSocketMessage_fail(k)
    \/ \E k \in Tasks : sendWebSocketMessage_unlock(k)
    \/ \E c \in ConnIds : WsDisconnect(c)

SpecWrite == InitConnected /\ [][NextWrite]_vars

(* the tasks inside conn.WriteMessage *)
Writing == {k \in Tasks : senders[k].pc = "write"}

(* C28: at most one task of the agent is writing a frame at any moment, and
   every frame that goes out (PING, proxy_response, proxy_response_chunk,
   proxy_stream_start/chunk/end, error responses), of the heartbeat and of
   every request worker, is written by a task that holds the write mutex *)
C28_WriteMutex ==
    /\ [](/\ Cardinality(Writing) <= 1
          /\ \A k \in Writing : writeMux)
    /\ [][\A f \in Arrived :
            \E k \in Writing : writeMux /\ f = Head(senders[k].out)]_vars

(* the heartbeat and a request's goroutine wait for the mutex while the
   goroutine of another request is inside WriteMessage with a chunk frame *)
C28_Witness ==
    /\ senders[0].pc = "lock"
    /\ \E k \in WorkerIds, j \in WorkerIds :
          /\ k # j
          /\ senders[k].pc = "write"
          /\ Head(senders[k].out).action = "proxy_response_chunk"
          /\ senders[j].pc = "lock"
          /\ workers[k].f.request_id # workers[j].f.request_id

----------------------------------------------------------------------------
(* The agent after its connection drops: the goroutines Start left running,
   the disconnect hook, and the edge waiting in the grace window *)

NextReconnect ==
    \/ WsDisconnect(agent.conn)
    \/ handleWebSocketMessages_error
    \/ keepAlive_error
    \/ \E c \in ConnIds : handler_tunnel_disconnect_scan(c)
    \/ \E c \in ConnIds : handler_tunnel_disconnect_update(c)
    \/ \E e \in EdgeIds : handleProxy_start(e, TheSubdomain, "req", 0, FALSE)
    \/ \E e \in EdgeIds : handleProxy_tunnel(e)
    \/ \E e \in EdgeIds : handleProxy_put(e)
    \/ \E e \in EdgeIds : waitForTunnelReconnect_miss(e)
    \/ \E e \in EdgeIds : waitForTunnelReconnect_deadline(e)
    \/ \E e \in EdgeIds : handleProxy_push(e)
    \/ \E e \in EdgeIds : pollAndReturn_abort(e, 504)
    \/ Tick
    \/ \E r \in ReqIds : Expire(r)

(* every step that can be taken is taken in the end: the goroutines, the hooks
   and the edge invocations all run *)
SpecReconnect == InitConnected /\ [][NextReconnect]_vars /\ WF_vars(NextReconnect)

(* the agent's tunnel is bound to an open connection *)
AgentBound ==
    \E c \in ConnIds :
       /\ Live(c)
       /\ conns[c].tunnel = TheTunnel
       /\ Has(tunnels[TheTunnel])
       /\ TunnelConnected(Val(tunnels[TheTunnel]))
       /\ Val(tunnels[TheTunnel]).connection_id = Some(c)

(* C29: after a read or write error on its connection the agent opens a new
   channel for the same tunnel_id in the end, the connect hook rebinds the
   tunnel, and an edge invocation waiting in the grace window on the tunnel
   sees it active again *)
C29_Reconnects ==
    /\ (agent.conn # 0 /\ ~Live(agent.conn)) ~> AgentBound
    /\ \A e \in EdgeIds :
          (edge[e].pc = "grace" /\ edge[e].tunnel = TheTunnel)
             ~> (edge[e].pc # "grace" /\ edge[e].via # "deadline")

----------------------------------------------------------------------------
(* The reply of the agent by size and content type, the PUT to a presigned
   URL succeeding or failing *)

StageResponses ==
    {LocalResponse(200, "text/plain", 2),
     LocalResponse(200, "text/plain", 131000),
     LocalAnswer(200, "text/plain", "resp.lf", 130500, 0),
     LocalResponse(200, "text/plain", 300000),
     LocalResponse(200, "video/mp4", 3),
     LocalResponse(200, "video/mp4", 30000)}

NextStage ==
    \/ \E e \in EdgeIds, ok \in BOOLEAN : handleProxy_start(e, TheSubdomain, "req", 0, ok)
    \/ \E e \in EdgeIds : handleProxy_tunnel(e)
    \/ \E e \in EdgeIds : handleProxy_put(e)
    \/ \E e \in EdgeIds : handleProxy_push(e)
    \/ \E c \in ConnIds : handleWebSocketMessages(c)
    \/ \E k \in WorkerIds : handleProxyRequest_body(k, TRUE)
    \/ \E k \in WorkerIds, resp \in {Some(x) : x \in StageResponses} :
          handleProxyRequest_local(k, resp)
    \/ \E k \in WorkerIds, upOK \in BOOLEAN : handleProxyRequest_upload(k, upOK)
    \/ AgentWrites

SpecStage == InitConnected /\ [][NextStage]_vars

(* the step in which the goroutine in slot k, with the answer of the local
   server in hand, builds its reply: after the local call when it does not
   stage, after the PUT when it does *)
ReplyStep(k) ==
    /\ workers[k].pc \in {"local", "upload"}
    /\ workers'[k].pc = "send"
    /\ Has(workers'[k].resp)
    /\ ~IsSSE(Val(workers'[k].resp).ct)

(* the frames of the reply, its terminal frame, its chunk frames, the answer
   and the body of the local server *)
ReplyOf(k) == senders'[k].out
TerminalSent(k) == ReplyOf(k)[Len(ReplyOf(k))]
ChunksSent(k) ==
    {i \in 1..Len(ReplyOf(k)) : ReplyOf(k)[i].action = "proxy_response_chunk"}
AnswerOf(k) == Val(workers'[k].resp)
BodySent(k) == LocalBody(workers[k].f.request_id, AnswerOf(k))
HandleAvailable(k) ==
    Has(workers[k].f.s3_put_url) /\ Has(workers[k].f.s3_response_key)
StagedReply(k) == Has(TerminalSent(k).s3_response_key)
LargeOrBinary(k) ==
    \/ ByteLen(BodySent(k)) > s3UploadThreshold
    \/ isBinaryContentType(AnswerOf(k).ct)
(* the serialized proxy_response with the whole body exceeds FMAX *)
OverLimit(k) ==
    SerializedLen(AnswerOf(k).ct, AnswerOf(k).hdr, BodySent(k)) > wsMessageLimit

(* what the agent sends when it does not stage: chunk frames and a terminal
   frame that counts them, or one frame with the body as JSON carries it *)
UnstagedReply(k) ==
    /\ ChunksSent(k) # {} <=> OverLimit(k)
    /\ Len(ReplyOf(k)) = Cardinality(ChunksSent(k)) + 1
    /\ TerminalSent(k).action = "proxy_response"
    /\ ChunksSent(k) # {} =>
          /\ TerminalSent(k).total_chunks = Cardinality(ChunksSent(k))
          /\ TerminalSent(k).body = Empty
    /\ ChunksSent(k) = {} =>
          /\ TerminalSent(k).total_chunks = 0
          /\ TerminalSent(k).body = ToValidUTF8(BodySent(k))

(* C30: for a non-SSE local response the agent stages the body only when
   the serialized terminal frame would exceed FMAX and a presigned handle is
   available and (the body exceeds FSTAGE or the content type is binary);
   otherwise it emits chunk frames and a terminal frame exactly when the
   frame exceeds FMAX, and a single inline proxy_response exactly when not *)
C30_StagingRule ==
    [][\A k \in WorkerIds :
          ReplyStep(k) =>
             /\ StagedReply(k) =>
                   (OverLimit(k) /\ HandleAvailable(k) /\ LargeOrBinary(k))
             /\ ~StagedReply(k) => UnstagedReply(k)]_vars

(* the goroutine in slot k is back from uploadToS3 *)
StagingAttempted(k) == workers[k].pc = "upload"

(* C30 as the agent does it: it attempts the PUT exactly when a presigned
   handle is available and (the body exceeds FSTAGE or the content type is
   binary), whatever the size of the frame; after a PUT that succeeded the
   reply is one terminal frame with the key and an empty body, the body being
   in the object store; without an attempt or after a PUT that failed the
   object store is as it was and the reply is chunk frames and a terminal
   frame exactly when the frame exceeds FMAX, one inline frame when not *)
C30_StagingRuleAmended ==
    [][\A k \in WorkerIds :
          ReplyStep(k) =>
             /\ StagingAttempted(k) <=> (HandleAvailable(k) /\ LargeOrBinary(k))
             /\ StagedReply(k) =>
                   /\ StagingAttempted(k)
                   /\ Len(ReplyOf(k)) = 1
                   /\ TerminalSent(k).body = Empty
                   /\ TerminalSent(k).total_chunks = 0
                   /\ objects'[workers[k].f.request_id].resp = Some(BodySent(k))
             /\ ~StagedReply(k) =>
                   /\ UnstagedReply(k)
                   /\ objects' = objects]_vars

(* a binary body of 3 bytes was staged, its frame far below FMAX, and the
   PUT of the binary body of another request failed: its proxy_response is
   on the connection without a key although its proxy frame had the handle *)
C30_Witness ==
    /\ \E f \in InFlight :
          /\ f.action = "proxy_response"
          /\ Has(f.s3_response_key)
          /\ isBinaryContentType(f.headers)
          /\ Has(objects[f.request_id].resp)
          /\ SerializedLen(f.headers, 0, Val(objects[f.request_id].resp)) <= wsMessageLimit
    /\ \E k \in Running :
          /\ senders[k].pc = "unlock"
          /\ Head(senders[k].out) \in InFlight
          /\ Head(senders[k].out).action = "proxy_response"
          /\ ~Has(Head(senders[k].out).s3_response_key)
          /\ Head(senders[k].out).body # Empty
          /\ Has(workers[k].f.s3_put_url)
          /\ Has(workers[k].f.s3_response_key)
          /\ isBinaryContentType(Val(workers[k].resp).ct)
          /\ ~Has(objects[workers[k].f.request_id].resp)

----------------------------------------------------------------------------
(* Claims on the frames of the agent, written one at a time *)

(* the frames of request r the agent has written so far *)
Written(r) == {f \in InFlight : f.request_id = r /\ f.action # "PING"}
WrittenAs(r, a) == {f \in Written(r) : f.action = a}
(* how many messages of request r with action a are on the connection *)
WrittenCount(r, a) == BagCardinality([f \in WrittenAs(r, a) |-> CopiesIn(f, inflight)])
ChunkIndexes(r) == {f.chunk_index : f \in WrittenAs(r, "proxy_stream_chunk")}
(* the local server answered request r with an event stream *)
AnsweredSSE(r) == \E x \in local[r] : IsSSE(x.ct)
(* the events the agent has read of it *)
Events(r) == {ByteLen(x.resp) \div EventLen : x \in local[r]}

(* C31: for a local response of type text/event-stream the agent writes one
   proxy_stream_start first, then one proxy_stream_chunk per SSE event it
   reads from the local server, with chunk_index 0, 1, 2, ... without gap or
   repeat, then proxy_stream_end last; nothing after proxy_stream_end and no
   proxy_response *)
C31_StreamOrder ==
    /\ [](\A r \in ReqIds :
            AnsweredSSE(r) =>
               /\ WrittenAs(r, "proxy_response") = {}
               /\ WrittenCount(r, "proxy_stream_start") <= 1
               /\ WrittenCount(r, "proxy_stream_end") <= 1
               /\ WrittenCount(r, "proxy_stream_chunk")
                     = Cardinality(ChunkIndexes(r))
               /\ ChunkIndexes(r) = 0..(Cardinality(ChunkIndexes(r)) - 1)
               /\ \A n \in Events(r) : Cardinality(ChunkIndexes(r)) <= n
               /\ Written(r) # {} => WrittenAs(r, "proxy_stream_start") # {})
    /\ [][\A r \in ReqIds :
            (AnsweredSSE(r) /\ WrittenAs(r, "proxy_stream_end") # {})
               => /\ Written(r)' = Written(r)
                  /\ WrittenCount(r, "proxy_stream_chunk")'
                        = WrittenCount(r, "proxy_stream_chunk")]_vars

(* the text of the body of an error response *)
TextOf(body) == ErrorBody(ErrorMsgOf(body[1][1]))

(* txt is the JSON object {"error":"..."}: between the quotes of the value
   there is no bare double quote *)
IsErrorJSON(txt) ==
    /\ Len(txt) >= 8
    /\ SubSeq(txt, 1, 6) = << "{", DQ, "error", DQ, ":", DQ >>
    /\ SubSeq(txt, Len(txt) - 1, Len(txt)) = << DQ, "}" >>
    /\ \A i \in 7..(Len(txt) - 2) : txt[i] # DQ

(* the frames the goroutine in slot k hands to its writes in this step *)
SentBy(k) == {senders'[k].out[i] : i \in 1..Len(senders'[k].out)}

(* C32: when the local call fails at transport level the agent sends one
   proxy_response with a 5xx status and a JSON error body; when the local
   server answers, with whatever status, the agent forwards that status *)
C32_LocalFailure ==
    [][\A k \in WorkerIds :
          /\ (workers[k].pc = "local" /\ workers'[k].pc = "send") =>
                LET r == workers[k].f.request_id
                    answers == local'[r] \ local[r]
                IN IF answers = {}
                   THEN \E f \in SentBy(k) :
                           /\ senders'[k].out = << f >>
                           /\ f.action = "proxy_response"
                           /\ f.status_code \in 500..599
                           /\ f.headers = "application/json"
                           /\ f.body # Empty
                           /\ f.body[1][1] \in LocalFailures
                           /\ IsErrorJSON(TextOf(f.body))
                   ELSE \A x \in answers :
                           \E f \in SentBy(k) :
                              /\ f.action \in {"proxy_response", "proxy_stream_start"}
                              /\ f.status_code = x.code
          /\ (workers[k].pc = "upload" /\ workers'[k].pc = "send") =>
                \E f \in SentBy(k) :
                   /\ f.action = "proxy_response"
                   /\ f.status_code = Val(workers[k].resp).code]_vars

----------------------------------------------------------------------------
(* The reassembly buffer of the agent over the life of its connection:
   chunked request bodies, the connection dropping, the agent shutting down *)

NextBuffer ==
    \/ \E e \in EdgeIds, n \in AgentBodyLens :
          handleProxy_start(e, TheSubdomain, "req", n, FALSE)
    \/ \E e \in EdgeIds : handleProxy_tunnel(e)
    \/ \E e \in EdgeIds : handleProxy_put(e)
    \/ \E e \in EdgeIds : handleProxy_push(e)
    \/ \E c \in ConnIds : handleWebSocketMessages(c)
    \/ \E k \in WorkerIds : handleProxyRequest_body(k, TRUE)
    \/ \E k \in WorkerIds, resp \in {Some(x) : x \in AgentResponses} :
          handleProxyRequest_local(k, resp)
    \/ AgentWrites
    \/ \E k \in Tasks : sendWebSocketMessage_fail(k)
    \/ WsDisconnect(agent.conn)
    \/ handleWebSocketMessages_error
    \/ keepAlive_error
    \/ Start_cleanup

SpecBuffer == InitConnected /\ [][NextBuffer]_vars

(* the connection of the agent is gone *)
TornDown == agent.conn # 0 /\ ~Live(agent.conn)

(* C33: the reassembly buffer holds no entry for a request once its body has
   been assembled, and no entry at all once the connection has been torn
   down, chunks of a request whose proxy frame never arrived included *)
C33_BufferReleased ==
    /\ \A k \in Running :
          (workers[k].pc = "local" /\ workers[k].f.total_chunks > 0)
             => chunkBuffers[workers[k].conn][workers[k].f.request_id] = <<>>
    /\ TornDown => \A r \in ReqIds : chunkBuffers[agent.conn][r] = <<>>

(* entry r comes into the store in this step *)
Created(r) == ~Has(store[r]) /\ Has(store'[r])

(* C34: every entry whose status is other than waiting_upload carries a
   tunnel_id, and the tunnel of that id was active when the entry was
   created *)
C34_EntryTunnelActive ==
    /\ [](\A r \in ReqIds :
            (Has(store[r]) /\ ItemStatus(store[r]) # "waiting_upload")
               => Has(Val(store[r]).tunnel_id))
    /\ [][\A r \in ReqIds :
            /\ Created(r) =>
                  /\ Has(Val(store'[r]).tunnel_id)
                  /\ Has(tunnels[Val(Val(store'[r]).tunnel_id)])
                  /\ TunnelStatus(Val(tunnels[Val(Val(store'[r]).tunnel_id)]))
                        = TunnelStatusActive
            /\ (Has(store[r]) /\ Has(store'[r])
                  /\ Val(store'[r]).created_at = Val(store[r]).created_at)
               => Val(store'[r]).tunnel_id = Val(store[r]).tunnel_id]_vars

----------------------------------------------------------------------------
C36_DisconnectKeepsRebind ==
    [][\A c \in ConnIds :
          (conns[c].st = "unbinding" /\ conns'[c].st = "closed") =>
             LET t == conns[c].found
             IN (Has(tunnels[t])
                   /\ Has(Val(tunnels[t]).connection_id)
                   /\ Val(tunnels[t]).connection_id # Some(c))
                => tunnels'[t] = tunnels[t]]_vars

----------------------------------------------------------------------------
(* Both ways a request reaches the agent: the synchronous path and the
   upload-notify path, with the agent and the dispatcher *)

OrderResponses == {LocalResponse(200, "text/plain", 2)}

(* one request for an upload URL, one PUT of the body *)
handleUploadURL_one(sub, presignOK) ==
    /\ urlResp[sub] = None
    /\ calls.url = NoCalls.url
    /\ handleUploadURL(sub, presignOK)

CallerPut_one(r, n) == uploads[r].puts = 0 /\ CallerPut(r, n)

NextOrder ==
    \/ \E e \in OneEdge, n \in BodyLens : handleProxy_start(e, TheSubdomain, "req", n, FALSE)
    \/ \E e \in OneEdge : handleProxy_tunnel(e)
    \/ \E e \in OneEdge : handleProxy_put(e)
    \/ \E e \in OneEdge : handleProxy_push(e)
    \/ \E e \in OneEdge : pollAndReturn_tick(e)
    \/ handleUploadURL_one(TheSubdomain, FALSE)
    \/ \E r \in ReqIds : handleUploadURL_tunnel(r)
    \/ \E r \in ReqIds : handleUploadURL_put(r)
    \/ \E r \in ReqIds, ok \in BOOLEAN : handleUploadURL_update(r, ok)
    \/ \E r \in ReqIds, n \in UploadLens : CallerPut_one(r, n)
    \/ \E r \in ReqIds : processUpload(r)
    \/ \E r \in ReqIds, k \in 1..MaxPut : processUpload_tunnel(r, k)
    \/ \E r \in ReqIds, k \in 1..MaxPut, ok \in BOOLEAN : processUpload_mark(r, k, ok)
    \/ \E r \in ReqIds, k \in 1..MaxPut : processUpload_post(r, k)
    \/ \E c \in ConnIds : handleWebSocketMessages(c)
    \/ \E k \in WorkerIds : handleProxyRequest_body(k, TRUE)
    \/ \E k \in WorkerIds, resp \in {Some(x) : x \in OrderResponses} :
          handleProxyRequest_local(k, resp)
    \/ AgentWrites
    \/ \E f \in InFlight : handler_tunnel_proxy(f)
    \/ Tick
    \/ \E r \in ReqIds : Expire(r)

SpecOrder == InitConnected /\ [][NextOrder]_vars

(* the frames of request r that are on their way: pushed to the agent and
   not read yet, or sent by the agent and not dispatched yet *)
OnTheWay(r) ==
    {f \in InFlight : f.request_id = r}
       \cup UNION {{wsQueue[c][i] : i \in 1..Len(wsQueue[c])} : c \in ConnIds}

(* C37: the entry of a request is in the store before any frame of the
   request (proxy_chunk or proxy) is pushed to the agent, on the synchronous
   path and on the upload-notify path; so no response frame of a request
   reaches the dispatcher before the entry of the request was created *)
C37_EntryBeforePush ==
    /\ [][\A r \in ReqIds : pushed'[r] # pushed[r] => Has(store[r])]_vars
    /\ [](\A r \in ReqIds :
            /\ pushed[r] # <<>> => UsedReq(r)
            /\ (\E f \in OnTheWay(r) : f.request_id = r) => pushed[r] # <<>>)
    /\ [][\A f \in Dispatched :
            f.request_id \in ReqIds
               => pushed[f.request_id] # <<>>]_vars

(* a request of each path has had its proxy frame pushed and its response
   dispatched *)
C37_Witness ==
    \E r \in ReqIds, q \in ReqIds :
       /\ \E e \in EdgeIds : edge[e].rid = r
       /\ uploads[q].issued
       /\ pushed[r] # <<>>
       /\ pushed[q] # <<>>
       /\ ItemStatus(store[r]) = "completed"
       /\ ItemStatus(store[q]) = "completed"

----------------------------------------------------------------------------
(* What upload-notify leaves behind when it cannot push *)

(* the part of C39 about an entry or tunnel that is missing, inactive or
   unbound: the invocation ends at the read that finds it so, and no step of
   it up to there changes the store or a queue *)
C39_NoTarget ==
    \A r \in ReqIds :
       /\ uploads'[r].events < uploads[r].events
            => /\ pushed' = pushed /\ wsQueue' = wsQueue /\ store' = store
               /\ (~Has(store[r]) \/ ~Has(Val(store[r]).tunnel_id)) => calls' = calls
       /\ \A k \in 1..MaxPut :
            (calls.notify[r][k].pc = "tunnel" /\ calls'.notify[r][k] # calls.notify[r][k])
            => /\ pushed' = pushed /\ wsQueue' = wsQueue /\ store' = store
               /\ ~Has(RegistryConn(calls.notify[r][k].tunnel))
                    => calls'.notify[r][k].pc = "idle"

(* C39: when upload-notify fires for an entry whose tunnel is not active or
   has no connection_id, or whose entry or tunnel cannot be found, the
   handler pushes no frame and leaves the status of the entry unchanged; and
   an invocation that has changed the status of its entry from
   waiting_upload to pending ends with a successful push of the proxy
   frame *)
C39_PendingOnlyWithPush ==
    [][/\ C39_NoTarget
       /\ \A r \in ReqIds, k \in 1..MaxPut :
            (calls.notify[r][k].pc = "post" /\ calls'.notify[r][k].pc = "idle"
               /\ ItemStatus(calls.notify[r][k].item) = "waiting_upload"
               /\ ItemStatus(store[r]) = "pending")
            => /\ Len(pushed'[r]) = Len(pushed[r]) + 1
               /\ IsUploadFrame(pushed'[r][Len(pushed'[r])], r)]_vars

----------------------------------------------------------------------------
(* Every way the agent answers a proxy frame, frame by frame, on a
   connection that can drop while the answer is being written *)

EmitResponses ==
    {LocalResponse(200, "text/plain", 2),
     LocalResponse(200, "text/plain", 300000),
     LocalResponse(200, "video/mp4", 3),
     LocalResponse(200, "text/event-stream", 2 * EventLen)}

NextEmit ==
    \/ \E e \in EdgeIds, ok \in BOOLEAN : handleProxy_start(e, TheSubdomain, "req", 0, ok)
    \/ \E e \in EdgeIds : handleProxy_tunnel(e)
    \/ \E e \in EdgeIds : handleProxy_put(e)
    \/ \E e \in EdgeIds : handleProxy_push(e)
    \/ \E c \in ConnIds : handleWebSocketMessages(c)
    \/ \E k \in WorkerIds : handleProxyRequest_body(k, TRUE)
    \/ \E k \in WorkerIds, resp \in {None} \cup {Some(x) : x \in EmitResponses} :
          handleProxyRequest_local(k, resp)
    \/ \E k \in WorkerIds, n \in ScanReads : streamProxyResponse_scan(k, n)
    \/ \E k \in WorkerIds, upOK \in BOOLEAN : handleProxyRequest_upload(k, upOK)
    \/ \E k \in Tasks : sendWebSocketMessage_lock(k)
    \/ \E k \in Tasks : sendWebSocketMessage_write(k)
    \/ \E k \in Tasks : sendWebSocketMessage_fail(k)
    \/ \E k \in Tasks : sendWebSocketMessage_unlock(k)
    \/ \E c \in ConnIds : WsDisconnect(c)

SpecEmit == InitConnected /\ [][NextEmit]_vars

(* task k gets a frame onto the connection in this step *)
Emits(k) ==
    /\ senders[k].pc = "write"
    /\ senders'[k].pc = "unlock"
    /\ Live(senders[k].conn)

(* C40: for each proxy frame it handles the agent emits at most one
   proxy_response for the request on every path (inline, chunked, staged,
   staging failure, chunk-send failure, local-call failure), and never both
   a proxy_response and a proxy_stream_start *)
C40_OneTerminal ==
    /\ [](\A r \in ReqIds :
            /\ WrittenCount(r, "proxy_response") <= 1
            /\ WrittenCount(r, "proxy_stream_start") <= 1
            /\ WrittenAs(r, "proxy_response") = {} \/ WrittenAs(r, "proxy_stream_start") = {})
    /\ [][\A k \in WorkerIds :
            Emits(k) =>
               LET f == Head(senders[k].out)
                   r == workers[k].f.request_id
               IN /\ f.request_id = r
                  /\ inflight' = inflight (+) SetToBag({f})
                  /\ f.action \in {"proxy_response", "proxy_stream_start"} =>
                        /\ WrittenAs(r, "proxy_response") = {}
                        /\ WrittenAs(r, "proxy_stream_start") = {}]_vars

(* the connection dropped while the goroutine of request r was sending its
   chunk frames and it is at the write of the error response; request q has
   its one proxy_response on the wire *)
C40_Witness ==
    \E k \in Running, q \in ReqIds :
       LET r == workers[k].f.request_id
       IN /\ WrittenAs(r, "proxy_response_chunk") # {}
          /\ WrittenAs(r, "proxy_response") = {}
          /\ senders[k].pc = "write"
          /\ senders[k].out = << ErrorFrame(r, "error/chunk") >>
          /\ ~Live(senders[k].conn)
          /\ q # r
          /\ WrittenCount(q, "proxy_response") = 1

====
